---- MODULE Spec2Model ----
(***************************************************************************)
(* State-machine model of hardhat/contracts/BtcUpDownFHE.sol.              *)
(*                                                                         *)
(* Confidential values (euint32 / euint64) are modelled by the plaintext   *)
(* they encrypt; the model keeps them in fields the public views never     *)
(* return.  A handle (bytes32) is a record carrying an identity and the    *)
(* plaintext an honest decryption service returns for it.  Every external  *)
(* call is one action, enabled exactly when none of the handler's require  *)
(* statements fails: the operator <Handler>Err gives the revert reason of  *)
(* a call ("" when it succeeds), a reverted call leaves the state as it    *)
(* was.  `last` records the last successful call.                          *)
(* Amounts are in scaled units far below 2^64, so the uint64 casts of the  *)
(* contract are the identity on every value the model produces.            *)
(***************************************************************************)
EXTENDS Integers, Sequences, FiniteSets, TLC

\* ---------------------------------------------------------------- bounds
MaxRound == 3
StakeUnit == 150
MaxBets == 2

\* ------------------------------------------------------- program constants
ROUND_SECONDS == 3600
BPS_DENOMINATOR == 10000
MAX_FEE_BPS == 2000

\* the clock advances one round length at a time
TickStep == ROUND_SECONDS

\* ------------------------------------------------------------ input sets
Users == {"alice", "bob"}
PoolUsers == {"alice", "bob", "carol"}
OwnerAddr == "owner"
\* an address whose code rejects incoming payments (a contract without a
\* payable receive function)
RejectingAddrs == {"mallory"}
Addresses == (PoolUsers \cup {OwnerAddr}) \cup RejectingAddrs
RoundIds == 0..MaxRound
\* rounds place-bet is tried on: a bet on the last modelled round could never be settled
BetRoundIds == 0..(MaxRound - 1)
\* euint32 direction: 1 = Up, 0 = Down, 2 stands for every other 32-bit value
Directions == {0, 1, 2}
FeeBpsChoices == {200}
\* constructor argument _stakeAmount (immutable)
stakeAmount == StakeUnit
PaymentChoices == {stakeAmount, stakeAmount - 1}

VARIABLES
    now,                    \* block.timestamp
    rounds,                 \* mapping(uint256 => Round)
    bets,                   \* mapping(uint256 => mapping(address => Bet))
    claimHandles,           \* mapping(uint256 => mapping(address => bytes32))
    userStats,              \* mapping(address => UserStats)
    participants,           \* address[]
    isParticipant,          \* mapping(address => bool), as the set of TRUE keys
    feeAccrued,
    feeBps,
    feeRecipient,
    owner,
    maxPriceAge,
    lastFinalizedRoundId,
    lastFinalizedRoundSet,
    lastRoundPrice,
    lastRoundPriceSet,
    balance,                \* address(this).balance
    inTransfer,             \* the calls whose _safeTransfer is running the recipient's code
    last                    \* the last external call and its outcome

vars == <<now, rounds, bets, claimHandles, userStats, participants, isParticipant,
          feeAccrued, feeBps, feeRecipient, owner, maxPriceAge,
          lastFinalizedRoundId, lastFinalizedRoundSet, lastRoundPrice,
          lastRoundPriceSet, balance, inTransfer, last>>

cfgVars == <<feeBps, feeRecipient, owner, maxPriceAge>>
finVars == <<lastFinalizedRoundId, lastFinalizedRoundSet, lastRoundPrice, lastRoundPriceSet>>
betVars == <<bets, claimHandles, userStats, participants, isParticipant>>
\* everything a call can write (all but the clock and the call record)
stateVars == <<rounds, bets, claimHandles, userStats, participants, isParticipant,
               feeAccrued, feeBps, feeRecipient, owner, maxPriceAge,
               lastFinalizedRoundId, lastFinalizedRoundSet, lastRoundPrice,
               lastRoundPriceSet, balance>>

\* --------------------------------------------------------------- handles
NoHandle == [id |-> <<>>, val |-> 0]
toBytes32(tag, roundId, user, plain) == [id |-> <<tag, roundId, user>>, val |-> plain]
\* what the decryption service returns, with a valid proof, for a handle
publicDecrypt(h) == h.val

\* ---------------------------------------------------------------- records
EmptyRound ==
    [initialized |-> FALSE, startTime |-> 0, endTime |-> 0,
     startPrice |-> 0, endPrice |-> 0, startPriceSet |-> FALSE,
     result |-> "Unknown", resultSet |-> FALSE,
     revealRequested |-> FALSE, totalsRevealed |-> FALSE,
     encTotalUp |-> 0, encTotalDown |-> 0,
     totalUpHandle |-> NoHandle, totalDownHandle |-> NoHandle,
     totalUp |-> 0, totalDown |-> 0, feeAmount |-> 0]

EmptyBet ==
    [exists |-> FALSE, stake |-> 0, direction |-> 0,
     claimRequested |-> FALSE, claimed |-> FALSE]

EmptyStats == [totalBets |-> 0, totalWins |-> 0, totalWagered |-> 0, totalPayout |-> 0]

\* the last successful call: who called what on which round, the amount it
\* transferred out, and the feed answer it read
NoCall == [op |-> "none", caller |-> "", roundId |-> 0, paid |-> 0,
           price |-> 0, updatedAt |-> 0]

Call(op, caller, roundId, paid) ==
    [op |-> op, caller |-> caller, roundId |-> roundId, paid |-> paid,
     price |-> 0, updatedAt |-> 0]

\* ----------------------------------------------------------------- views
getCurrentRound == now \div ROUND_SECONDS

\* mutant of getPendingClaim: a settled claim is still reported as pending
getPendingClaimRequestedOnly(roundId, user) ==
    <<bets[roundId][user].claimRequested, claimHandles[roundId][user]>>

\* getPendingClaim: <<pending, handle>>
getPendingClaim(roundId, user) ==
    <<bets[roundId][user].claimRequested /\ ~bets[roundId][user].claimed,
      claimHandles[roundId][user]>>

BetCount == Cardinality({p \in RoundIds \X Addresses : bets[p[1]][p[2]].exists})

\* ------------------------------------------------------------------ Init
Init ==
    /\ now = 0
    /\ rounds = [r \in RoundIds |-> EmptyRound]
    /\ bets = [r \in RoundIds |-> [a \in Addresses |-> EmptyBet]]
    /\ claimHandles = [r \in RoundIds |-> [a \in Addresses |-> NoHandle]]
    /\ userStats = [a \in Addresses |-> EmptyStats]
    /\ participants = <<>>
    /\ isParticipant = {}
    /\ feeAccrued = 0
    /\ feeBps \in FeeBpsChoices
    /\ feeRecipient = OwnerAddr
    /\ owner = OwnerAddr
    /\ maxPriceAge = ROUND_SECONDS
    /\ lastFinalizedRoundId = 0
    /\ lastFinalizedRoundSet = FALSE
    /\ lastRoundPrice = 0
    /\ lastRoundPriceSet = FALSE
    /\ balance = 0
    /\ inTransfer = <<>>
    /\ last = NoCall

\* ------------------------------------------------------------ the clock
Tick(maxRound) ==
    /\ (now + TickStep) \div ROUND_SECONDS <= maxRound
    /\ now' = now + TickStep
    /\ last' = Call("tick", "", 0, 0)
    /\ UNCHANGED <<inTransfer, stateVars>>

\* ------------------------------------------------------------ _initRound
_initRound(r, roundId) ==
    IF r.initialized THEN r
    ELSE [r EXCEPT !.initialized = TRUE,
                   !.startTime = roundId * ROUND_SECONDS,
                   !.endTime = roundId * ROUND_SECONDS + ROUND_SECONDS,
                   !.encTotalUp = 0,
                   !.encTotalDown = 0]

\* -------------------------------------------------------------- placeBet
\* mutant of PlaceBetErr: the payment is not compared with the stake amount
PlaceBetErrAnyStake(roundId, sender, value) ==
    IF roundId # getCurrentRound + 1 THEN "Bet next round only"
    ELSE IF ~(now < _initRound(rounds[roundId], roundId).startTime) THEN "Round already started"
    ELSE IF bets[roundId][sender].exists THEN "Already bet"
    ELSE ""

\* mutant of PlaceBetErr: the existing bet of the sender is not looked at
PlaceBetErrNoDuplicateCheck(roundId, sender, value) ==
    IF roundId # getCurrentRound + 1 THEN "Bet next round only"
    ELSE IF value # stakeAmount THEN "Incorrect stake"
    ELSE IF ~(now < _initRound(rounds[roundId], roundId).startTime) THEN "Round already started"
    ELSE ""

\* mutant of PlaceBetErr: any round after the current one is accepted
PlaceBetErrAnyFutureRound(roundId, sender, value) ==
    IF roundId <= getCurrentRound THEN "Bet next round only"
    ELSE IF value # stakeAmount THEN "Incorrect stake"
    ELSE IF ~(now < _initRound(rounds[roundId], roundId).startTime) THEN "Round already started"
    ELSE IF bets[roundId][sender].exists THEN "Already bet"
    ELSE ""

\* mutant of PlaceBetErr: the running round is accepted as well and the start
\* time is not looked at
PlaceBetErrWhileRunning(roundId, sender, value) ==
    IF roundId # getCurrentRound + 1 /\ roundId # getCurrentRound THEN "Bet next round only"
    ELSE IF value # stakeAmount THEN "Incorrect stake"
    ELSE IF bets[roundId][sender].exists THEN "Already bet"
    ELSE ""

PlaceBetErr(roundId, sender, value) ==
    IF roundId # getCurrentRound + 1 THEN "Bet next round only"
    ELSE IF value # stakeAmount THEN "Incorrect stake"
    ELSE IF ~(now < _initRound(rounds[roundId], roundId).startTime) THEN "Round already started"
    ELSE IF bets[roundId][sender].exists THEN "Already bet"
    ELSE ""

\* FHE.select(FHE.eq(dir, side), stakeEnc, zeroStake)
SelectStake(dir, side, stake) == IF dir = side THEN stake ELSE 0

\* FHE.add on the two confidential totals
TallyBet(r, dir, stake) ==
    [r EXCEPT !.encTotalUp = r.encTotalUp + SelectStake(dir, 1, stake),
              !.encTotalDown = r.encTotalDown + SelectStake(dir, 0, stake)]

_recordBet(stats, stake) ==
    [stats EXCEPT !.totalBets = stats.totalBets + 1,
                  !.totalWagered = stats.totalWagered + stake]

\* mutant of _recordPayout: the payout is added only for a win
_recordPayoutOnlyWins(stats, payout, isWin) ==
    [stats EXCEPT !.totalPayout = IF isWin THEN stats.totalPayout + payout
                                  ELSE stats.totalPayout,
                  !.totalWins = IF isWin THEN stats.totalWins + 1 ELSE stats.totalWins]

_recordPayout(stats, payout, isWin) ==
    [stats EXCEPT !.totalPayout = IF payout > 0 THEN stats.totalPayout + payout
                                  ELSE stats.totalPayout,
                  !.totalWins = IF isWin THEN stats.totalWins + 1 ELSE stats.totalWins]

\* mutant of placeBet: the sender is appended to the directory on every bet
placeBetAlwaysAppends(roundId, sender, dir, value) ==
    /\ PlaceBetErr(roundId, sender, value) = ""
    /\ rounds' = [rounds EXCEPT
           ![roundId] = TallyBet(_initRound(rounds[roundId], roundId), dir, value)]
    /\ bets' = [bets EXCEPT ![roundId][sender] =
           [exists |-> TRUE, stake |-> value, direction |-> dir,
            claimRequested |-> FALSE, claimed |-> FALSE]]
    /\ isParticipant' = isParticipant \cup {sender}
    /\ participants' = Append(participants, sender)
    /\ userStats' = [userStats EXCEPT ![sender] = _recordBet(userStats[sender], value)]
    /\ balance' = balance + value
    /\ last' = Call("placeBet", sender, roundId, 0)
    /\ UNCHANGED <<now, inTransfer, claimHandles, feeAccrued, cfgVars, finVars>>

placeBet(roundId, sender, dir, value) ==
    /\ PlaceBetErr(roundId, sender, value) = ""
    /\ rounds' = [rounds EXCEPT
           ![roundId] = TallyBet(_initRound(rounds[roundId], roundId), dir, value)]
    /\ bets' = [bets EXCEPT ![roundId][sender] =
           [exists |-> TRUE, stake |-> value, direction |-> dir,
            claimRequested |-> FALSE, claimed |-> FALSE]]
    /\ isParticipant' = isParticipant \cup {sender}
    /\ participants' = IF sender \in isParticipant THEN participants
                       ELSE Append(participants, sender)
    /\ userStats' = [userStats EXCEPT ![sender] = _recordBet(userStats[sender], value)]
    /\ balance' = balance + value
    /\ last' = Call("placeBet", sender, roundId, 0)
    /\ UNCHANGED <<now, inTransfer, claimHandles, feeAccrued, cfgVars, finVars>>

\* --------------------------------------------------- _finalizeRoundFromFeed
\* mutant of FinalizeErr: a round that has a result can be finalized again
FinalizeErrRepeatable(roundId, price, updatedAt) ==
    IF ~(getCurrentRound > 0) THEN "No completed round"
    ELSE IF roundId + 1 # getCurrentRound THEN "Only latest round"
    ELSE IF ~(now >= _initRound(rounds[roundId], roundId).endTime) THEN "Round not ended"
    ELSE IF ~(price > 0) THEN "Invalid price"
    ELSE IF ~(now - updatedAt <= maxPriceAge) THEN "Stale price"
    ELSE ""

\* mutant of FinalizeErr: the order check against the last finalized round is missing
FinalizeErrAnyOrder(roundId, price, updatedAt) ==
    IF ~(getCurrentRound > 0) THEN "No completed round"
    ELSE IF roundId + 1 # getCurrentRound THEN "Only latest round"
    ELSE IF ~(now >= _initRound(rounds[roundId], roundId).endTime) THEN "Round not ended"
    ELSE IF rounds[roundId].resultSet THEN "Already finalized"
    ELSE IF ~(price > 0) THEN "Invalid price"
    ELSE IF ~(now - updatedAt <= maxPriceAge) THEN "Stale price"
    ELSE ""

\* mutant of FinalizeErr: the staleness check is off by one round length
FinalizeErrLaxStaleness(roundId, price, updatedAt) ==
    IF ~(getCurrentRound > 0) THEN "No completed round"
    ELSE IF roundId + 1 # getCurrentRound THEN "Only latest round"
    ELSE IF lastFinalizedRoundSet /\ roundId # lastFinalizedRoundId + 1 THEN "Out of order"
    ELSE IF ~(now >= _initRound(rounds[roundId], roundId).endTime) THEN "Round not ended"
    ELSE IF rounds[roundId].resultSet THEN "Already finalized"
    ELSE IF ~(price > 0) THEN "Invalid price"
    ELSE IF ~(now - updatedAt <= maxPriceAge + ROUND_SECONDS) THEN "Stale price"
    ELSE ""

FinalizeErr(roundId, price, updatedAt) ==
    IF ~(getCurrentRound > 0) THEN "No completed round"
    ELSE IF roundId + 1 # getCurrentRound THEN "Only latest round"
    ELSE IF lastFinalizedRoundSet /\ roundId # lastFinalizedRoundId + 1 THEN "Out of order"
    ELSE IF ~(now >= _initRound(rounds[roundId], roundId).endTime) THEN "Round not ended"
    ELSE IF rounds[roundId].resultSet THEN "Already finalized"
    ELSE IF ~(price > 0) THEN "Invalid price"
    ELSE IF ~(now - updatedAt <= maxPriceAge) THEN "Stale price"
    ELSE ""

\* mutant of ResultOf: an unchanged price counts as Up
ResultOfNonStrict(price, startPrice) ==
    IF price >= startPrice THEN "Up" ELSE "Down"

ResultOf(price, startPrice) ==
    IF price > startPrice THEN "Up"
    ELSE IF price < startPrice THEN "Down"
    ELSE "Tie"

\* mutant of StartPriceFor: without a carried price the unset start price (0) is kept
StartPriceForUnset(r, price) ==
    IF r.startPriceSet THEN r.startPrice
    ELSE IF lastRoundPriceSet THEN lastRoundPrice ELSE r.startPrice

\* the start price a finalization of round record r uses at feed price `price`
StartPriceFor(r, price) ==
    IF r.startPriceSet THEN r.startPrice
    ELSE IF lastRoundPriceSet THEN lastRoundPrice ELSE price

FinalizedRound(r, price) ==
    [r EXCEPT !.startPrice = StartPriceFor(r, price),
              !.startPriceSet = TRUE,
              !.endPrice = price,
              !.result = ResultOf(price, StartPriceFor(r, price)),
              !.resultSet = TRUE]

\* mutant of _finalizeRoundFromFeed: the end price is also stored as the start
\* price of the next round
_finalizeRoundFromFeedSeedsNext(op, roundId, price, updatedAt) ==
    /\ FinalizeErr(roundId, price, updatedAt) = ""
    /\ rounds' = [q \in RoundIds |->
           IF q = roundId THEN FinalizedRound(_initRound(rounds[roundId], roundId), price)
           ELSE IF q = roundId + 1 THEN [rounds[q] EXCEPT !.startPrice = price,
                                                          !.startPriceSet = TRUE]
           ELSE rounds[q]]
    /\ lastRoundPrice' = price
    /\ lastRoundPriceSet' = TRUE
    /\ lastFinalizedRoundId' = roundId
    /\ lastFinalizedRoundSet' = TRUE
    /\ last' = [Call(op, "", roundId, 0) EXCEPT !.price = price, !.updatedAt = updatedAt]
    /\ UNCHANGED <<now, inTransfer, betVars, feeAccrued, cfgVars, balance>>

_finalizeRoundFromFeed(op, roundId, price, updatedAt) ==
    /\ FinalizeErr(roundId, price, updatedAt) = ""
    /\ rounds' = [rounds EXCEPT
           ![roundId] = FinalizedRound(_initRound(rounds[roundId], roundId), price)]
    /\ lastRoundPrice' = price
    /\ lastRoundPriceSet' = TRUE
    /\ lastFinalizedRoundId' = roundId
    /\ lastFinalizedRoundSet' = TRUE
    /\ last' = [Call(op, "", roundId, 0) EXCEPT !.price = price, !.updatedAt = updatedAt]
    /\ UNCHANGED <<now, inTransfer, betVars, feeAccrued, cfgVars, balance>>

\* the <<price, updatedAt>> answers latestRoundData() can give at the current time
FeedChoices ==
    {f \in {<<50000, now>>, <<60000, now>>, <<0, now>>, <<-1, now>>,
            <<50000, now - maxPriceAge>>, <<60000, now - maxPriceAge - 1>>} : f[2] >= 0}

finalizeRound(roundId, price, updatedAt) ==
    _finalizeRoundFromFeed("finalizeRound", roundId, price, updatedAt)

\* performData: <<>> is empty calldata, <<n>> the 32-byte encoding of n,
\* any other length is malformed calldata
PerformDataChoices ==
    {<<>>, <<0, 0>>} \cup {<<n>> : n \in {getCurrentRound - 1, getCurrentRound} \cap RoundIds}

\* mutant of UpkeepTarget: a decoded round id is used as it is
UpkeepTargetAsDecoded(performData) ==
    LET targetRound == getCurrentRound - 1 IN
    IF Len(performData) = 1 THEN performData[1] ELSE targetRound

\* the round performUpkeep hands to _finalizeRoundFromFeed
UpkeepTarget(performData) ==
    LET targetRound == getCurrentRound - 1 IN
    IF Len(performData) = 1 /\ performData[1] = targetRound
    THEN performData[1] ELSE targetRound

PerformUpkeepErr(performData, price, updatedAt) ==
    IF ~(getCurrentRound > 0) THEN "No completed round"
    ELSE FinalizeErr(UpkeepTarget(performData), price, updatedAt)

performUpkeep(performData, price, updatedAt) ==
    /\ getCurrentRound > 0
    /\ _finalizeRoundFromFeed("performUpkeep", UpkeepTarget(performData), price, updatedAt)

\* checkUpkeep: <<upkeepNeeded, performData>>
checkUpkeep ==
    LET currentRound == getCurrentRound
        targetRound == currentRound - 1 IN
    IF currentRound = 0 THEN <<FALSE, <<>>>>
    ELSE IF lastFinalizedRoundSet /\ targetRound <= lastFinalizedRoundId THEN <<FALSE, <<>>>>
    ELSE IF now < (IF rounds[targetRound].initialized THEN rounds[targetRound].endTime
                   ELSE (targetRound + 1) * ROUND_SECONDS) THEN <<FALSE, <<>>>>
    ELSE <<TRUE, <<targetRound>>>>

\* ------------------------------------------------------ requestRoundReveal
\* mutant of RequestRoundRevealErr: reveal can be requested before the result is set
RequestRoundRevealErrNoResult(roundId) ==
    IF rounds[roundId].revealRequested THEN "Reveal requested"
    ELSE ""

\* mutant of RequestRoundRevealErr: a repeated request is accepted
RequestRoundRevealErrRepeatable(roundId) ==
    IF ~rounds[roundId].resultSet THEN "Result not set"
    ELSE ""

RequestRoundRevealErr(roundId) ==
    IF ~rounds[roundId].resultSet THEN "Result not set"
    ELSE IF rounds[roundId].revealRequested THEN "Reveal requested"
    ELSE ""

requestRoundReveal(roundId) ==
    LET r == rounds[roundId] IN
    /\ RequestRoundRevealErr(roundId) = ""
    /\ rounds' = [rounds EXCEPT ![roundId] =
           [r EXCEPT !.revealRequested = TRUE,
                     !.totalUpHandle = toBytes32("totalUp", roundId, "", r.encTotalUp),
                     !.totalDownHandle = toBytes32("totalDown", roundId, "", r.encTotalDown)]]
    /\ last' = Call("requestRoundReveal", "", roundId, 0)
    /\ UNCHANGED <<now, inTransfer, betVars, feeAccrued, cfgVars, finVars, balance>>

\* --------------------------------------------------- resolveTotalsCallback
\* mutant of checkSignatures: only the number of cleartexts is verified
checkSignaturesCountOnly(handles, cleartexts) == Len(handles) = Len(cleartexts)

\* FHE.checkSignatures: the proof verifies exactly the cleartexts the
\* decryption service produced for the handles
checkSignatures(handles, cleartexts) ==
    /\ Len(handles) = Len(cleartexts)
    /\ \A i \in 1..Len(handles) : cleartexts[i] = publicDecrypt(handles[i])

\* mutant of ResolveTotalsErr: already revealed totals can be resolved again
ResolveTotalsErrRepeatable(roundId, cleartexts) ==
    IF ~rounds[roundId].revealRequested THEN "Reveal not requested"
    ELSE IF ~checkSignatures(<<rounds[roundId].totalUpHandle, rounds[roundId].totalDownHandle>>,
                             cleartexts) THEN "Invalid decryption proof"
    ELSE ""

ResolveTotalsErr(roundId, cleartexts) ==
    IF ~rounds[roundId].revealRequested THEN "Reveal not requested"
    ELSE IF rounds[roundId].totalsRevealed THEN "Totals already revealed"
    ELSE IF ~checkSignatures(<<rounds[roundId].totalUpHandle, rounds[roundId].totalDownHandle>>,
                             cleartexts) THEN "Invalid decryption proof"
    ELSE ""

WinningTotalAtResolve(result, totalUp, totalDown) ==
    IF result = "Up" THEN totalUp ELSE IF result = "Down" THEN totalDown ELSE 0

LosingTotalAtResolve(result, totalUp, totalDown) ==
    IF result = "Up" THEN totalDown ELSE IF result = "Down" THEN totalUp ELSE 0

\* mutant of FeeFor: the fee is taken from the winning side's total
FeeOnWinningTotal(result, totalUp, totalDown, bps) ==
    IF WinningTotalAtResolve(result, totalUp, totalDown) > 0 /\ result # "Tie"
    THEN (WinningTotalAtResolve(result, totalUp, totalDown) * bps) \div BPS_DENOMINATOR
    ELSE 0

\* the fee resolveTotalsCallback computes for a round; 0 stands for the branch
\* not taken, which leaves r.feeAmount and feeAccrued as they were
FeeFor(result, totalUp, totalDown, bps) ==
    IF WinningTotalAtResolve(result, totalUp, totalDown) > 0 /\ result # "Tie"
    THEN (LosingTotalAtResolve(result, totalUp, totalDown) * bps) \div BPS_DENOMINATOR
    ELSE 0

\* TRUE when resolveTotalsCallback enters its fee branch
FeeBranchTaken(result, totalUp, totalDown) ==
    WinningTotalAtResolve(result, totalUp, totalDown) > 0 /\ result # "Tie"

\* the cleartext pairs a caller may submit: the true ones and altered ones
TotalsCleartextChoices(roundId) ==
    LET up == publicDecrypt(rounds[roundId].totalUpHandle)
        down == publicDecrypt(rounds[roundId].totalDownHandle) IN
    {<<up, down>>, <<up + stakeAmount, down>>, <<down, up>>}

resolveTotalsCallback(roundId, cleartexts) ==
    LET r == rounds[roundId]
        fee == FeeFor(r.result, cleartexts[1], cleartexts[2], feeBps) IN
    /\ ResolveTotalsErr(roundId, cleartexts) = ""
    /\ rounds' = [rounds EXCEPT ![roundId] =
           [r EXCEPT !.totalUp = cleartexts[1],
                     !.totalDown = cleartexts[2],
                     !.totalsRevealed = TRUE,
                     !.feeAmount = IF FeeBranchTaken(r.result, cleartexts[1], cleartexts[2])
                                   THEN fee ELSE r.feeAmount]]
    /\ feeAccrued' = IF FeeBranchTaken(r.result, cleartexts[1], cleartexts[2])
                     THEN feeAccrued + fee ELSE feeAccrued
    /\ last' = Call("resolveTotalsCallback", "", roundId, 0)
    /\ UNCHANGED <<now, inTransfer, betVars, cfgVars, finVars, balance>>

\* ------------------------------------------------------------ _safeTransfer
\* mutant of TransferOk: the outcome of the call to the recipient is not looked at
TransferOkUnchecked(to, amount) == amount <= balance

\* to.call{value: amount}("") succeeds when the contract holds the amount and
\* the recipient accepts it
TransferOk(to, amount) == amount <= balance /\ to \notin RejectingAddrs

\* ------------------------------------------------------------- requestClaim
WinningTotal(r) == IF r.result = "Up" THEN r.totalUp ELSE r.totalDown
LosingTotal(r) == IF r.result = "Up" THEN r.totalDown ELSE r.totalUp

Distributable(losingTotal, feeAmount) ==
    IF losingTotal > feeAmount THEN losingTotal - feeAmount ELSE 0

\* mutant of Payout: the share is taken from the whole losing total
PayoutIgnoringFee(stake, winningTotal, losingTotal, feeAmount) ==
    stake + ((stake * losingTotal) \div winningTotal)

\* uint64 payout = stake + share
Payout(stake, winningTotal, losingTotal, feeAmount) ==
    stake + ((stake * Distributable(losingTotal, feeAmount)) \div winningTotal)

\* FHE.asEuint32(r.result == Result.Up ? 1 : 0)
ResultEnc(result) == IF result = "Up" THEN 1 ELSE 0

\* mutant of PayoutEnc: the payout is selected whatever the direction
PayoutEncAnyDirection(direction, result, payout) == payout

\* FHE.select(FHE.eq(b.direction, resultEnc), payout, 0)
PayoutEnc(direction, result, payout) ==
    IF direction = ResultEnc(result) THEN payout ELSE 0

\* TRUE when requestClaim takes one of its two immediate-refund returns
RefundsImmediately(r) ==
    \/ r.result = "Tie"
    \/ r.totalsRevealed /\ WinningTotal(r) = 0

\* mutant of RequestClaimErr: a pending claim does not block a new request
RequestClaimErrNoPendingCheck(roundId, sender) ==
    LET r == rounds[roundId]
        b == bets[roundId][sender] IN
    IF ~r.resultSet THEN "Result not set"
    ELSE IF ~b.exists THEN "No bet"
    ELSE IF b.claimed THEN "Already claimed"
    ELSE IF r.result = "Tie"
         THEN (IF TransferOk(sender, b.stake) THEN "" ELSE "Transfer failed")
    ELSE IF ~r.totalsRevealed THEN "Totals not revealed"
    ELSE IF WinningTotal(r) = 0
         THEN (IF TransferOk(sender, b.stake) THEN "" ELSE "Transfer failed")
    ELSE ""

\* mutant of RequestClaimErr: disclosed totals are required before the Tie refund
RequestClaimErrRevealFirst(roundId, sender) ==
    LET r == rounds[roundId]
        b == bets[roundId][sender] IN
    IF ~r.resultSet THEN "Result not set"
    ELSE IF ~b.exists THEN "No bet"
    ELSE IF b.claimed THEN "Already claimed"
    ELSE IF b.claimRequested THEN "Claim pending"
    ELSE IF ~r.totalsRevealed THEN "Totals not revealed"
    ELSE IF r.result = "Tie" \/ WinningTotal(r) = 0
         THEN (IF TransferOk(sender, b.stake) THEN "" ELSE "Transfer failed")
    ELSE ""

RequestClaimErr(roundId, sender) ==
    LET r == rounds[roundId]
        b == bets[roundId][sender] IN
    IF ~r.resultSet THEN "Result not set"
    ELSE IF ~b.exists THEN "No bet"
    ELSE IF b.claimed THEN "Already claimed"
    ELSE IF b.claimRequested THEN "Claim pending"
    ELSE IF r.result = "Tie"
         THEN (IF TransferOk(sender, b.stake) THEN "" ELSE "Transfer failed")
    ELSE IF ~r.totalsRevealed THEN "Totals not revealed"
    ELSE IF WinningTotal(r) = 0
         THEN (IF TransferOk(sender, b.stake) THEN "" ELSE "Transfer failed")
    ELSE ""

\* mutant of RefundClaim: the refund is recorded as a win
RefundClaimAsWin(roundId, sender) ==
    LET b == bets[roundId][sender] IN
    /\ bets' = [bets EXCEPT ![roundId][sender].claimed = TRUE]
    /\ balance' = balance - b.stake
    /\ userStats' = [userStats EXCEPT
           ![sender] = _recordPayout(userStats[sender], b.stake, TRUE)]
    /\ last' = Call("requestClaim", sender, roundId, b.stake)
    /\ UNCHANGED <<claimHandles>>

\* mutant of RefundClaim: every bet of the round is marked claimed
RefundClaimWholeRound(roundId, sender) ==
    LET b == bets[roundId][sender] IN
    /\ bets' = [bets EXCEPT ![roundId] =
           [a \in Addresses |-> IF bets[roundId][a].exists
                                THEN [bets[roundId][a] EXCEPT !.claimed = TRUE]
                                ELSE bets[roundId][a]]]
    /\ balance' = balance - b.stake
    /\ userStats' = [userStats EXCEPT
           ![sender] = _recordPayout(userStats[sender], b.stake, FALSE)]
    /\ last' = Call("requestClaim", sender, roundId, b.stake)
    /\ UNCHANGED <<claimHandles>>

\* the two immediate-refund returns of requestClaim
RefundClaim(roundId, sender) ==
    LET b == bets[roundId][sender] IN
    /\ bets' = [bets EXCEPT ![roundId][sender].claimed = TRUE]
    /\ balance' = balance - b.stake
    /\ userStats' = [userStats EXCEPT
           ![sender] = _recordPayout(userStats[sender], b.stake, FALSE)]
    /\ last' = Call("requestClaim", sender, roundId, b.stake)
    /\ UNCHANGED <<claimHandles>>

\* mutant of EncryptedClaim: the fee is recomputed from the current feeBps
EncryptedClaimCurrentFee(roundId, sender) ==
    LET r == rounds[roundId]
        b == bets[roundId][sender] IN
    /\ claimHandles' = [claimHandles EXCEPT ![roundId][sender] =
           toBytes32("payout", roundId, sender,
                     PayoutEnc(b.direction, r.result,
                               Payout(b.stake, WinningTotal(r), LosingTotal(r),
                                      FeeFor(r.result, r.totalUp, r.totalDown, feeBps))))]
    /\ bets' = [bets EXCEPT ![roundId][sender].claimRequested = TRUE]
    /\ last' = Call("requestClaim", sender, roundId, 0)
    /\ UNCHANGED <<userStats, balance>>

\* the confidential payout path of requestClaim
EncryptedClaim(roundId, sender) ==
    LET r == rounds[roundId]
        b == bets[roundId][sender] IN
    /\ claimHandles' = [claimHandles EXCEPT ![roundId][sender] =
           toBytes32("payout", roundId, sender,
                     PayoutEnc(b.direction, r.result,
                               Payout(b.stake, WinningTotal(r), LosingTotal(r), r.feeAmount)))]
    /\ bets' = [bets EXCEPT ![roundId][sender].claimRequested = TRUE]
    /\ last' = Call("requestClaim", sender, roundId, 0)
    /\ UNCHANGED <<userStats, balance>>

requestClaim(roundId, sender) ==
    /\ RequestClaimErr(roundId, sender) = ""
    /\ IF RefundsImmediately(rounds[roundId])
       THEN RefundClaim(roundId, sender)
       ELSE EncryptedClaim(roundId, sender)
    /\ UNCHANGED <<now, inTransfer, rounds, participants, isParticipant, feeAccrued, cfgVars, finVars>>

\* ------------------------------------------------------------ claimCallback
ClaimCallbackErr(roundId, sender, cleartext) ==
    LET r == rounds[roundId]
        b == bets[roundId][sender]
        handle == claimHandles[roundId][sender] IN
    IF ~r.totalsRevealed THEN "Totals not revealed"
    ELSE IF ~b.exists THEN "No bet"
    ELSE IF ~b.claimRequested THEN "Claim not requested"
    ELSE IF b.claimed THEN "Already claimed"
    ELSE IF handle = NoHandle THEN "Missing handle"
    ELSE IF ~checkSignatures(<<handle>>, <<cleartext>>) THEN "Invalid decryption proof"
    ELSE IF cleartext > 0 /\ ~TransferOk(sender, cleartext) THEN "Transfer failed"
    ELSE ""

\* the cleartexts a caller may submit: the true one and an inflated one
PayoutCleartextChoices(roundId, sender) ==
    LET v == publicDecrypt(claimHandles[roundId][sender]) IN {v, v + stakeAmount}

claimCallback(roundId, sender, cleartext) ==
    LET b == bets[roundId][sender] IN
    /\ ClaimCallbackErr(roundId, sender, cleartext) = ""
    /\ bets' = [bets EXCEPT ![roundId][sender].claimed = TRUE]
    /\ balance' = balance - cleartext
    /\ userStats' = [userStats EXCEPT
           ![sender] = _recordPayout(userStats[sender], cleartext, cleartext > b.stake)]
    /\ last' = Call("claimCallback", sender, roundId, cleartext)
    /\ UNCHANGED <<now, inTransfer, rounds, claimHandles, participants, isParticipant,
                   feeAccrued, cfgVars, finVars>>

\* ------------------------------------------------------------- withdrawFees
\* mutant of WithdrawFeesErr: the sender is not compared with the fee recipient
WithdrawFeesErrAnyone(sender) ==
    IF ~(feeAccrued > 0) THEN "No fees"
    ELSE IF ~TransferOk(sender, feeAccrued) THEN "Transfer failed"
    ELSE ""

WithdrawFeesErr(sender) ==
    IF sender # feeRecipient THEN "Only fee recipient"
    ELSE IF ~(feeAccrued > 0) THEN "No fees"
    ELSE IF ~TransferOk(sender, feeAccrued) THEN "Transfer failed"
    ELSE ""

\* mutant of withdrawFees: the whole balance is sent, not the accrued fees
withdrawFeesWholeBalance(sender) ==
    /\ WithdrawFeesErr(sender) = ""
    /\ feeAccrued' = 0
    /\ balance' = 0
    /\ last' = Call("withdrawFees", sender, 0, balance)
    /\ UNCHANGED <<now, inTransfer, rounds, betVars, cfgVars, finVars>>

withdrawFees(sender) ==
    /\ WithdrawFeesErr(sender) = ""
    /\ feeAccrued' = 0
    /\ balance' = balance - feeAccrued
    /\ last' = Call("withdrawFees", sender, 0, feeAccrued)
    /\ UNCHANGED <<now, inTransfer, rounds, betVars, cfgVars, finVars>>

\* ------------------------------------------------------------------ setters
\* modifier onlyOwner
OnlyOwnerErr(sender) == IF sender # owner THEN "Only owner" ELSE ""

setFeeRecipient(sender, recipient) ==
    /\ OnlyOwnerErr(sender) = ""
    /\ feeRecipient' = recipient
    /\ last' = Call("setFeeRecipient", sender, 0, 0)
    /\ UNCHANGED <<now, inTransfer, rounds, betVars, feeAccrued, feeBps, owner, maxPriceAge, finVars, balance>>

\* mutant of SetFeeBpsErr: the cap on the fee is missing
SetFeeBpsErrNoCap(sender, newFeeBps) == OnlyOwnerErr(sender)

SetFeeBpsErr(sender, newFeeBps) ==
    IF OnlyOwnerErr(sender) # "" THEN OnlyOwnerErr(sender)
    ELSE IF ~(newFeeBps <= MAX_FEE_BPS) THEN "Fee too high"
    ELSE ""

setFeeBps(sender, newFeeBps) ==
    /\ SetFeeBpsErr(sender, newFeeBps) = ""
    /\ feeBps' = newFeeBps
    /\ last' = Call("setFeeBps", sender, 0, 0)
    /\ UNCHANGED <<now, inTransfer, rounds, betVars, feeAccrued, feeRecipient, owner, maxPriceAge,
                   finVars, balance>>

setMaxPriceAge(sender, newMaxPriceAge) ==
    /\ OnlyOwnerErr(sender) = ""
    /\ maxPriceAge' = newMaxPriceAge
    /\ last' = Call("setMaxPriceAge", sender, 0, 0)
    /\ UNCHANGED <<now, inTransfer, rounds, betVars, feeAccrued, feeBps, feeRecipient, owner, finVars, balance>>

\* -------------------------------------------------------------- constructor
ConstructorErr(_stakeAmount, _feeBps) ==
    IF ~(_stakeAmount > 0) THEN "Stake must be positive"
    ELSE IF ~(_feeBps <= MAX_FEE_BPS) THEN "Fee too high"
    ELSE ""

\* the fee values tried as constructor argument and as argument of setFeeBps
FeeBpsInputs == {0, 200, MAX_FEE_BPS, MAX_FEE_BPS + 1}

\* the state after a construction with any fee argument the constructor accepts
InitAdmin ==
    /\ now = 0
    /\ rounds = [r \in RoundIds |-> EmptyRound]
    /\ bets = [r \in RoundIds |-> [a \in Addresses |-> EmptyBet]]
    /\ claimHandles = [r \in RoundIds |-> [a \in Addresses |-> NoHandle]]
    /\ userStats = [a \in Addresses |-> EmptyStats]
    /\ participants = <<>>
    /\ isParticipant = {}
    /\ feeAccrued = 0
    /\ feeBps \in {b \in FeeBpsInputs : ConstructorErr(stakeAmount, b) = ""}
    /\ feeRecipient = OwnerAddr
    /\ owner = OwnerAddr
    /\ maxPriceAge = ROUND_SECONDS
    /\ lastFinalizedRoundId = 0
    /\ lastFinalizedRoundSet = FALSE
    /\ lastRoundPrice = 0
    /\ lastRoundPriceSet = FALSE
    /\ balance = 0
    /\ inTransfer = <<>>
    /\ last = NoCall

\* ----------------------------------------------------------- rejected calls
\* a call that fails a requirement reverts: every write of the transaction is
\* undone; `last` keeps which call it was
Revert(op, caller, roundId) ==
    /\ last' = Call(op, caller, roundId, 0)
    /\ UNCHANGED <<now, inTransfer, stateVars>>

\* ------------------------------------------------------------------- Next
\* the whole lifecycle over several rounds, two bettors
Next ==
    \/ Tick(MaxRound)
    \/ /\ BetCount < MaxBets
       /\ \E roundId \in BetRoundIds, sender \in Users, dir \in Directions,
             value \in PaymentChoices : placeBet(roundId, sender, dir, value)
    \/ \E roundId \in RoundIds, feed \in FeedChoices :
          finalizeRound(roundId, feed[1], feed[2])
    \/ \E performData \in PerformDataChoices, feed \in FeedChoices :
          performUpkeep(performData, feed[1], feed[2])
    \/ \E roundId \in RoundIds : requestRoundReveal(roundId)
    \/ \E roundId \in RoundIds :
          \E cleartexts \in TotalsCleartextChoices(roundId) :
             resolveTotalsCallback(roundId, cleartexts)
    \/ \E roundId \in RoundIds, sender \in Users : requestClaim(roundId, sender)
    \/ \E roundId \in RoundIds, sender \in Users :
          \E cleartext \in PayoutCleartextChoices(roundId, sender) :
             claimCallback(roundId, sender, cleartext)
    \/ \E sender \in Addresses : withdrawFees(sender)

Spec == Init /\ [][Next]_vars

\* one betting round with three bettors: round PoolRound is bet on during the
\* round before it and settled during the round after it
PoolRound == 1

NextPool ==
    \/ Tick(PoolRound + 1)
    \/ \E sender \in PoolUsers, dir \in Directions :
          placeBet(PoolRound, sender, dir, stakeAmount)
    \/ \E roundId \in 0..PoolRound, feed \in FeedChoices :
          finalizeRound(roundId, feed[1], feed[2])
    \/ requestRoundReveal(PoolRound)
    \/ \E cleartexts \in TotalsCleartextChoices(PoolRound) :
          resolveTotalsCallback(PoolRound, cleartexts)
    \/ \E sender \in PoolUsers : requestClaim(PoolRound, sender)
    \/ \E sender \in PoolUsers :
          \E cleartext \in PayoutCleartextChoices(PoolRound, sender) :
             claimCallback(PoolRound, sender, cleartext)
    \/ \E sender \in Addresses : withdrawFees(sender)

SpecPool == Init /\ [][NextPool]_vars

\* SpecPool with a relayer that eventually submits every decryption that was
\* requested: resolveTotalsCallback and each bettor's claimCallback are weakly fair
SpecPoolFair ==
    /\ SpecPool
    /\ WF_vars(\E cleartexts \in TotalsCleartextChoices(PoolRound) :
                  resolveTotalsCallback(PoolRound, cleartexts))
    /\ \A sender \in PoolUsers :
          WF_vars(\E cleartext \in PayoutCleartextChoices(PoolRound, sender) :
                     claimCallback(PoolRound, sender, cleartext))

\* one betting round whose bettors are alice and an address that rejects
\* payments, with the owner's setters (SpecAdmin) or with the rejected calls
\* (SpecReject)
AdminUsers == {"alice"} \cup RejectingAddrs
AdminCallers == {OwnerAddr, "alice"}
MaxPriceAgeInputs == {ROUND_SECONDS, 0}

RejectedCall ==
    \/ \E sender \in AdminUsers, value \in PaymentChoices :
          /\ PlaceBetErr(PoolRound, sender, value) # ""
          /\ Revert("placeBet reverted", sender, PoolRound)
    \/ \E roundId \in 0..PoolRound, feed \in FeedChoices :
          /\ FinalizeErr(roundId, feed[1], feed[2]) \in {"Invalid price", "Stale price"}
          /\ Revert("finalizeRound reverted", "", roundId)
    \/ \E sender \in AdminUsers :
          /\ RequestClaimErr(PoolRound, sender) # ""
          /\ Revert("requestClaim reverted", sender, PoolRound)
    \/ \E sender \in AdminUsers :
          \E cleartext \in PayoutCleartextChoices(PoolRound, sender) :
             /\ ClaimCallbackErr(PoolRound, sender, cleartext) # ""
             /\ Revert("claimCallback reverted", sender, PoolRound)
    \/ \E sender \in AdminCallers :
          /\ WithdrawFeesErr(sender) # ""
          /\ Revert("withdrawFees reverted", sender, 0)
    \/ \E sender \in AdminCallers, newFeeBps \in FeeBpsInputs :
          /\ SetFeeBpsErr(sender, newFeeBps) # ""
          /\ Revert("setFeeBps reverted", sender, 0)
    \/ \E sender \in AdminCallers :
          /\ OnlyOwnerErr(sender) # ""
          /\ Revert("setter reverted", sender, 0)

NextAdmin ==
    \/ Tick(PoolRound + 1)
    \/ \E sender \in AdminUsers, dir \in Directions, value \in PaymentChoices :
          placeBet(PoolRound, sender, dir, value)
    \/ \E roundId \in 0..PoolRound, feed \in FeedChoices :
          finalizeRound(roundId, feed[1], feed[2])
    \/ requestRoundReveal(PoolRound)
    \/ \E cleartexts \in TotalsCleartextChoices(PoolRound) :
          resolveTotalsCallback(PoolRound, cleartexts)
    \/ \E sender \in AdminUsers : requestClaim(PoolRound, sender)
    \/ \E sender \in AdminUsers :
          \E cleartext \in PayoutCleartextChoices(PoolRound, sender) :
             claimCallback(PoolRound, sender, cleartext)
    \/ \E sender \in AdminCallers : withdrawFees(sender)
    \/ \E sender \in AdminCallers, recipient \in AdminCallers :
          setFeeRecipient(sender, recipient)
    \/ \E sender \in AdminCallers, newFeeBps \in FeeBpsInputs :
          setFeeBps(sender, newFeeBps)
    \/ \E sender \in AdminCallers, newMaxPriceAge \in MaxPriceAgeInputs :
          setMaxPriceAge(sender, newMaxPriceAge)

SpecAdmin == InitAdmin /\ [][NextAdmin]_vars

NextReject ==
    \/ Tick(PoolRound + 1)
    \/ \E sender \in AdminUsers, dir \in Directions, value \in PaymentChoices :
          placeBet(PoolRound, sender, dir, value)
    \/ \E roundId \in 0..PoolRound, feed \in FeedChoices :
          finalizeRound(roundId, feed[1], feed[2])
    \/ requestRoundReveal(PoolRound)
    \/ \E cleartexts \in TotalsCleartextChoices(PoolRound) :
          resolveTotalsCallback(PoolRound, cleartexts)
    \/ \E sender \in AdminUsers : requestClaim(PoolRound, sender)
    \/ \E sender \in AdminUsers :
          \E cleartext \in PayoutCleartextChoices(PoolRound, sender) :
             claimCallback(PoolRound, sender, cleartext)
    \/ \E sender \in AdminCallers : withdrawFees(sender)
    \/ RejectedCall

SpecReject == Init /\ [][NextReject]_vars

\* ------------------------------------------------- transfers to contracts
\* to.call{value: amount}("") hands control to the recipient: when the
\* recipient is a contract its code runs before _safeTransfer returns and may
\* call any entry point, directly or through other addresses, in the state the
\* handler has written so far.  A handler with a transfer is then two steps:
\* <handler>Enter, up to and including the call (value sent), and
\* transferReturns, the rest of the handler after the call returned.
\* A transfer whose recipient fails reverts the whole call and is no step.
MaxReentry == 2

Transfer(op, caller, roundId, paid, isWin) ==
    [op |-> op, caller |-> caller, roundId |-> roundId, paid |-> paid, isWin |-> isWin]

\* mutant of requestClaimEnter: the claimed flag is not written before the transfer
requestClaimEnterFlagNotWritten(roundId, sender) ==
    LET b == bets[roundId][sender] IN
    /\ RequestClaimErr(roundId, sender) = ""
    /\ RefundsImmediately(rounds[roundId])
    /\ balance' = balance - b.stake
    /\ inTransfer' = Append(inTransfer, Transfer("requestClaim", sender, roundId, b.stake, FALSE))
    /\ last' = Call("requestClaim enters recipient", sender, roundId, b.stake)
    /\ UNCHANGED <<now, rounds, bets, claimHandles, userStats, participants, isParticipant,
                   feeAccrued, cfgVars, finVars>>

\* requestClaim on one of its refund returns, up to the call to the recipient
requestClaimEnter(roundId, sender) ==
    LET b == bets[roundId][sender] IN
    /\ RequestClaimErr(roundId, sender) = ""
    /\ RefundsImmediately(rounds[roundId])
    /\ bets' = [bets EXCEPT ![roundId][sender].claimed = TRUE]
    /\ balance' = balance - b.stake
    /\ inTransfer' = Append(inTransfer, Transfer("requestClaim", sender, roundId, b.stake, FALSE))
    /\ last' = Call("requestClaim enters recipient", sender, roundId, b.stake)
    /\ UNCHANGED <<now, rounds, claimHandles, userStats, participants, isParticipant,
                   feeAccrued, cfgVars, finVars>>

\* claimCallback with a positive payout, up to the call to the recipient
claimCallbackEnter(roundId, sender, cleartext) ==
    LET b == bets[roundId][sender] IN
    /\ ClaimCallbackErr(roundId, sender, cleartext) = ""
    /\ cleartext > 0
    /\ bets' = [bets EXCEPT ![roundId][sender].claimed = TRUE]
    /\ balance' = balance - cleartext
    /\ inTransfer' = Append(inTransfer,
           Transfer("claimCallback", sender, roundId, cleartext, cleartext > b.stake))
    /\ last' = Call("claimCallback enters recipient", sender, roundId, cleartext)
    /\ UNCHANGED <<now, rounds, claimHandles, userStats, participants, isParticipant,
                   feeAccrued, cfgVars, finVars>>

\* withdrawFees up to the call to the recipient
withdrawFeesEnter(sender) ==
    /\ WithdrawFeesErr(sender) = ""
    /\ feeAccrued' = 0
    /\ balance' = balance - feeAccrued
    /\ inTransfer' = Append(inTransfer, Transfer("withdrawFees", sender, 0, feeAccrued, FALSE))
    /\ last' = Call("withdrawFees enters recipient", sender, 0, feeAccrued)
    /\ UNCHANGED <<now, rounds, betVars, cfgVars, finVars>>

\* the innermost transfer returns and its handler runs to its end:
\* _recordPayout after a claim's transfer, nothing after withdrawFees's
transferReturns ==
    /\ inTransfer # <<>>
    /\ LET t == inTransfer[Len(inTransfer)] IN
       /\ userStats' = IF t.op = "withdrawFees" THEN userStats
                       ELSE [userStats EXCEPT
                               ![t.caller] = _recordPayout(userStats[t.caller], t.paid, t.isWin)]
       /\ last' = Call(t.op, t.caller, t.roundId, t.paid)
    /\ inTransfer' = SubSeq(inTransfer, 1, Len(inTransfer) - 1)
    /\ UNCHANGED <<now, rounds, bets, claimHandles, participants, isParticipant,
                   feeAccrued, cfgVars, finVars, balance>>

\* one betting round whose bettors and fee recipient are contracts that may
\* call back while they are being paid
ReenterUsers == {"alice", "bob"}
ReenterCallers == ReenterUsers \cup {OwnerAddr}

\* a call made from inside a transfer to its recipient that is rejected: a
\* claim of the bet being paid, or a withdrawal by the recipient being paid
RejectedReentry ==
    /\ inTransfer # <<>>
    /\ LET t == inTransfer[Len(inTransfer)] IN
       \/ /\ t.op # "withdrawFees"
          /\ RequestClaimErr(t.roundId, t.caller) # ""
          /\ Revert("requestClaim reverted", t.caller, t.roundId)
       \/ /\ t.op # "withdrawFees"
          /\ \E cleartext \in PayoutCleartextChoices(t.roundId, t.caller) :
                ClaimCallbackErr(t.roundId, t.caller, cleartext) # ""
          /\ Revert("claimCallback reverted", t.caller, t.roundId)
       \/ /\ t.op = "withdrawFees"
          /\ WithdrawFeesErr(t.caller) # ""
          /\ Revert("withdrawFees reverted", t.caller, 0)

NextReenter ==
    \/ /\ inTransfer = <<>>
       /\ Tick(PoolRound + 1)
    \/ \E sender \in ReenterUsers, dir \in Directions :
          placeBet(PoolRound, sender, dir, stakeAmount)
    \/ \E roundId \in 0..PoolRound, feed \in FeedChoices :
          finalizeRound(roundId, feed[1], feed[2])
    \/ requestRoundReveal(PoolRound)
    \/ \E cleartexts \in TotalsCleartextChoices(PoolRound) :
          resolveTotalsCallback(PoolRound, cleartexts)
    \/ \E sender \in ReenterUsers : requestClaim(PoolRound, sender)
    \/ \E sender \in ReenterUsers :
          \E cleartext \in PayoutCleartextChoices(PoolRound, sender) :
             claimCallback(PoolRound, sender, cleartext)
    \/ \E sender \in ReenterCallers : withdrawFees(sender)
    \/ /\ Len(inTransfer) < MaxReentry
       /\ \E sender \in ReenterUsers : requestClaimEnter(PoolRound, sender)
    \/ /\ Len(inTransfer) < MaxReentry
       /\ \E sender \in ReenterUsers :
             \E cleartext \in PayoutCleartextChoices(PoolRound, sender) :
                claimCallbackEnter(PoolRound, sender, cleartext)
    \/ /\ Len(inTransfer) < MaxReentry
       /\ \E sender \in ReenterCallers : withdrawFeesEnter(sender)
    \/ transferReturns
    \/ RejectedReentry

SpecReenter == Init /\ [][NextReenter]_vars


\* ================================================================ claims
UpDown == {"Up", "Down"}

\* the disclosed totals of the side that won / lost round record r
DisclosedWinning(r) == IF r.result = "Up" THEN r.totalUp
                       ELSE IF r.result = "Down" THEN r.totalDown ELSE 0
DisclosedLosing(r) == IF r.result = "Up" THEN r.totalDown
                      ELSE IF r.result = "Down" THEN r.totalUp ELSE 0

\* the direction value that matches result Up / Down
MatchingDirection(result) == IF result = "Up" THEN 1 ELSE 0

RECURSIVE SumOver(_, _)
SumOver(f, S) ==
    IF S = {} THEN 0
    ELSE LET x == CHOOSE y \in S : TRUE IN f[x] + SumOver(f, S \ {x})

\* the sum of the stakes of all bets placed on round roundId
StakesOn(roundId) ==
    SumOver([a \in Addresses |-> IF bets[roundId][a].exists THEN bets[roundId][a].stake ELSE 0],
            Addresses)

\* TRUE when the last call was claimCallback by a bettor whose direction matches
\* the Up/Down result of a round with revealed totals and a non-empty winning side
WinnerJustPaid ==
    /\ last.op = "claimCallback"
    /\ rounds[last.roundId].totalsRevealed
    /\ rounds[last.roundId].result \in UpDown
    /\ bets[last.roundId][last.caller].direction = MatchingDirection(rounds[last.roundId].result)
    /\ DisclosedWinning(rounds[last.roundId]) > 0

\* C1: the amount claimCallback transfers to a bettor whose direction equals the
\* round's Up/Down result (totals revealed, winning total > 0) is exactly
\* stake + floor(stake * (losingTotal - feeAmount) / winningTotal).
C1_WinnerPayout ==
    WinnerJustPaid =>
        LET r == rounds[last.roundId]
            stake == bets[last.roundId][last.caller].stake IN
        last.paid = stake + ((stake * (DisclosedLosing(r) - r.feeAmount))
                                \div DisclosedWinning(r))

\* a winner was paid a share that the floor rounds down
C1_Witness ==
    /\ WinnerJustPaid
    /\ last.paid > bets[last.roundId][last.caller].stake
    /\ (bets[last.roundId][last.caller].stake
          * (DisclosedLosing(rounds[last.roundId]) - rounds[last.roundId].feeAmount))
         % DisclosedWinning(rounds[last.roundId]) # 0

\* C2: for every round whose totals are revealed, disclosed totalUp + totalDown
\* equals the sum of the stakes placed on the round, whatever direction values
\* the bettors submitted.
C2_Conservation ==
    \A roundId \in RoundIds :
        rounds[roundId].totalsRevealed =>
            rounds[roundId].totalUp + rounds[roundId].totalDown = StakesOn(roundId)

\* TRUE of a step in which resolveTotalsCallback succeeds on roundId
TotalsResolvedStep(roundId) ==
    ~rounds[roundId].totalsRevealed /\ rounds'[roundId].totalsRevealed

\* C3 as claimed: after resolve-totals the round's fee is
\* floor(feeBps * losingTotal / 10000) whenever the result is Up or Down, 0 when
\* it is Tie, and feeAccrued grows by exactly that fee in the step.
C3_FeeAsClaimed ==
    [][\A roundId \in RoundIds :
         TotalsResolvedStep(roundId) =>
            LET r == rounds'[roundId] IN
            /\ r.result \in UpDown =>
                  r.feeAmount = (feeBps * DisclosedLosing(r)) \div BPS_DENOMINATOR
            /\ r.result = "Tie" => r.feeAmount = 0
            /\ feeAccrued' = feeAccrued + r.feeAmount]_vars

\* C3 amended: the fee is floor(feeBps * losingTotal / 10000) when the result is
\* Up or Down and the disclosed winning total is positive; it is 0 when the
\* result is Tie or the winning total is 0; feeAccrued grows by exactly the
\* round's fee in the step.
C3_FeeAmended ==
    [][\A roundId \in RoundIds :
         TotalsResolvedStep(roundId) =>
            LET r == rounds'[roundId] IN
            /\ (r.result \in UpDown /\ DisclosedWinning(r) > 0) =>
                  r.feeAmount = (feeBps * DisclosedLosing(r)) \div BPS_DENOMINATOR
            /\ (r.result = "Tie" \/ DisclosedWinning(r) = 0) => r.feeAmount = 0
            /\ feeAccrued' = feeAccrued + r.feeAmount]_vars

\* totals were just resolved on an Up/Down round and a positive fee accrued
C3_Witness ==
    /\ last.op = "resolveTotalsCallback"
    /\ rounds[last.roundId].result \in UpDown
    /\ rounds[last.roundId].feeAmount > 0
    /\ feeAccrued = rounds[last.roundId].feeAmount

\* TRUE of a step in which sender's bet on roundId becomes claimed
ClaimedStep(roundId, sender) ==
    ~bets[roundId][sender].claimed /\ bets'[roundId][sender].claimed

\* C4: on a Tie round request-claim is never blocked for an unclaimed bet (no
\* reveal needed), it pays exactly the stake, marks the bet claimed without a
\* pending claim, adds the stake to totalPayout and leaves totalWins alone; the
\* round's feeAmount is 0, revealed or not.
C4_TieRefund ==
    /\ [](\A roundId \in RoundIds :
            rounds[roundId].result = "Tie" =>
               /\ rounds[roundId].feeAmount = 0
               /\ \A a \in Addresses :
                     (bets[roundId][a].exists /\ ~bets[roundId][a].claimed)
                        => RequestClaimErr(roundId, a) = "")
    /\ [][\A roundId \in RoundIds, a \in Addresses :
            (rounds[roundId].result = "Tie" /\ ClaimedStep(roundId, a)) =>
               /\ last'.op = "requestClaim"
               /\ balance' = balance - bets[roundId][a].stake
               /\ last'.paid = bets[roundId][a].stake
               /\ ~bets'[roundId][a].claimRequested
               /\ userStats'[a].totalPayout = userStats[a].totalPayout + bets[roundId][a].stake
               /\ userStats'[a].totalWins = userStats[a].totalWins]_vars

\* a bettor was refunded on a Tie round whose reveal was never requested
C4_Witness ==
    /\ last.op = "requestClaim"
    /\ rounds[last.roundId].result = "Tie"
    /\ ~rounds[last.roundId].revealRequested
    /\ bets[last.roundId][last.caller].claimed
    /\ last.paid = stakeAmount
    /\ userStats[last.caller].totalWins = 0


FinalizeOps == {"finalizeRound", "performUpkeep"}

\* TRUE of a step in which round roundId gets its result
FinalizedStep(roundId) == ~rounds[roundId].resultSet /\ rounds'[roundId].resultSet

FinalizedRounds == {q \in RoundIds : rounds[q].resultSet}

GoodFeed(f) == f[1] > 0 /\ now - f[2] <= maxPriceAge

\* C6: finalize-round(r) called during round r + 1 with a positive fresh price,
\* when the last finalized round is older than r - 1, succeeds and uses the end
\* price of that last finalized round as r's start price.
C6_FinalizeAcrossGap ==
    \A roundId \in RoundIds, f \in FeedChoices :
        ( /\ getCurrentRound = roundId + 1
          /\ GoodFeed(f)
          /\ lastFinalizedRoundSet
          /\ lastFinalizedRoundId < roundId - 1
          /\ ~rounds[roundId - 1].resultSet )
        => /\ FinalizeErr(roundId, f[1], f[2]) = ""
           /\ StartPriceFor(rounds[roundId], f[1]) = rounds[lastFinalizedRoundId].endPrice

BadFeed(f) == f[1] <= 0 \/ now - f[2] > maxPriceAge

PriceErrs == {"Invalid price", "Stale price"}

\* C8: finalize-round and performUpkeep reject every non-positive or stale feed
\* answer; a round rejected for its price has no result and is accepted with a
\* valid price; no result, last finalized id or last round price is written
\* except by a finalization that read a positive fresh price.
C8_BadPriceRejected ==
    /\ [](\A f \in FeedChoices :
            BadFeed(f) =>
               /\ \A roundId \in RoundIds : FinalizeErr(roundId, f[1], f[2]) # ""
               /\ \A d \in PerformDataChoices : PerformUpkeepErr(d, f[1], f[2]) # "")
    /\ [](\A roundId \in RoundIds, f \in FeedChoices :
            FinalizeErr(roundId, f[1], f[2]) \in PriceErrs =>
               /\ ~rounds[roundId].resultSet
               /\ \A g \in FeedChoices :
                     GoodFeed(g) => FinalizeErr(roundId, g[1], g[2]) = "")
    /\ [][(\/ lastFinalizedRoundId' # lastFinalizedRoundId
           \/ lastFinalizedRoundSet' # lastFinalizedRoundSet
           \/ lastRoundPrice' # lastRoundPrice
           \/ \E roundId \in RoundIds : rounds'[roundId].result # rounds[roundId].result)
          => /\ last'.op \in FinalizeOps
             /\ last'.price > 0
             /\ now - last'.updatedAt <= maxPriceAge
             /\ lastRoundPrice' = last'.price]_vars

\* round 1 is rejected for a stale and for an invalid price and has no result
C8_Witness ==
    /\ FinalizeErr(1, 60000, now - maxPriceAge - 1) = "Stale price"
    /\ FinalizeErr(1, 0, now) = "Invalid price"
    /\ ~rounds[1].resultSet
    /\ lastFinalizedRoundSet

\* C9: whenever checkUpkeep reports upkeepNeeded with performData and the feed
\* price is positive and fresh, performUpkeep(performData) succeeds.
C9_UpkeepSucceeds ==
    \A f \in FeedChoices :
        (checkUpkeep[1] /\ GoodFeed(f)) => PerformUpkeepErr(checkUpkeep[2], f[1], f[2]) = ""

\* C10: place-bet is rejected for every round other than currentRound + 1, so a
\* bet is only ever recorded, and a round's confidential totals only ever
\* change, for the round after the current one.
C10_NextRoundOnly ==
    /\ [](\A roundId \in RoundIds, a \in Addresses, v \in PaymentChoices :
            roundId # (now \div ROUND_SECONDS) + 1 => PlaceBetErr(roundId, a, v) # "")
    /\ [](last.op = "placeBet" => last.roundId = (now \div ROUND_SECONDS) + 1)
    /\ [][\A roundId \in RoundIds :
            roundId # (now \div ROUND_SECONDS) + 1 =>
               /\ \A a \in Addresses : bets'[roundId][a] = bets[roundId][a]
                                          \/ bets[roundId][a].exists
               /\ rounds'[roundId].encTotalUp = rounds[roundId].encTotalUp
               /\ rounds'[roundId].encTotalDown = rounds[roundId].encTotalDown]_vars

\* a bet was just placed during round 1 on round 2, while bets on the current
\* round, a past round and the round after next are rejected
C10_Witness ==
    /\ last.op = "placeBet"
    /\ last.roundId = 2
    /\ now \div ROUND_SECONDS = 1
    /\ PlaceBetErr(1, "bob", stakeAmount) = "Bet next round only"
    /\ PlaceBetErr(0, "bob", stakeAmount) = "Bet next round only"
    /\ PlaceBetErr(3, "bob", stakeAmount) = "Bet next round only"

\* TRUE of a step that is a successful call of op on roundId by caller ("" for
\* the calls whose sender the contract does not look at)
CallStep(op, roundId, caller) ==
    /\ last'.op = op
    /\ last'.roundId = roundId
    /\ last'.caller = caller
    /\ vars' # vars

RoundsBetOn(a) == {roundId \in RoundIds : bets[roundId][a].exists}

\* C11: place-bet is rejected for an address that already has a bet on the
\* round; a successful place-bet is always the address's first on the round, an
\* existing bet keeps its stake and direction, and each address's totalBets and
\* totalWagered count exactly one bet per round it has bet on.
C11_OneBetPerRound ==
    /\ [](\A roundId \in RoundIds, a \in Addresses, v \in PaymentChoices :
            bets[roundId][a].exists => PlaceBetErr(roundId, a, v) # "")
    /\ [](\A a \in Addresses :
            /\ userStats[a].totalBets = Cardinality(RoundsBetOn(a))
            /\ userStats[a].totalWagered = stakeAmount * Cardinality(RoundsBetOn(a)))
    /\ [][\A roundId \in RoundIds, a \in Addresses :
            /\ CallStep("placeBet", roundId, a) => ~bets[roundId][a].exists
            /\ bets[roundId][a].exists =>
                  /\ bets'[roundId][a].exists
                  /\ bets'[roundId][a].stake = bets[roundId][a].stake
                  /\ bets'[roundId][a].direction = bets[roundId][a].direction]_vars

\* alice and then bob have bet on round 1 and both are now rejected on it, while
\* carol, who has no bet, is accepted
C11_Witness ==
    /\ last.op = "placeBet"
    /\ last.caller = "bob"
    /\ bets[1]["alice"].exists
    /\ PlaceBetErr(1, "alice", stakeAmount) = "Already bet"
    /\ PlaceBetErr(1, "bob", stakeAmount) = "Already bet"
    /\ PlaceBetErr(1, "carol", stakeAmount) = ""
    /\ userStats["alice"].totalBets = 1

\* C12: resolve-totals is rejected once a round's totals are revealed and
\* resolve-claim once a bet is claimed; both flags are never reset, a successful
\* resolve-totals / resolve-claim is the step that sets its flag, feeAccrued
\* grows only in that step and by that round's fee, and the contract pays out
\* only in the step that marks a bet claimed (or withdraws the fees).
C12_CallbacksOnce ==
    /\ [](\A roundId \in RoundIds :
            rounds[roundId].totalsRevealed =>
               \A c \in TotalsCleartextChoices(roundId) : ResolveTotalsErr(roundId, c) # "")
    /\ [](\A roundId \in RoundIds, a \in Addresses :
            bets[roundId][a].claimed =>
               \A c \in PayoutCleartextChoices(roundId, a) :
                  ClaimCallbackErr(roundId, a, c) # "")
    /\ [][/\ \A roundId \in RoundIds :
               /\ rounds[roundId].totalsRevealed => rounds'[roundId].totalsRevealed
               /\ CallStep("resolveTotalsCallback", roundId, "") => TotalsResolvedStep(roundId)
               /\ \A a \in Addresses :
                     /\ bets[roundId][a].claimed => bets'[roundId][a].claimed
                     /\ CallStep("claimCallback", roundId, a) =>
                           /\ ClaimedStep(roundId, a)
                           /\ balance' = balance - last'.paid
          /\ feeAccrued' > feeAccrued =>
               \E roundId \in RoundIds :
                  /\ TotalsResolvedStep(roundId)
                  /\ feeAccrued' = feeAccrued + rounds'[roundId].feeAmount
          /\ balance' < balance =>
               \/ last'.op = "withdrawFees"
               \/ \E roundId \in RoundIds, a \in Addresses :
                     /\ ClaimedStep(roundId, a)
                     /\ balance' = balance - last'.paid]_vars

\* a fee was accrued for round 1 and a winner was just paid: repeating either
\* callback with the true cleartexts is rejected
C12_Witness ==
    /\ last.op = "claimCallback"
    /\ last.roundId = 1
    /\ last.paid > stakeAmount
    /\ rounds[1].feeAmount > 0
    /\ feeAccrued = rounds[1].feeAmount
    /\ ResolveTotalsErr(1, <<rounds[1].totalUp, rounds[1].totalDown>>)
          = "Totals already revealed"
    /\ ClaimCallbackErr(1, last.caller, last.paid) = "Already claimed"

\* C13: request-round-reveal is rejected while the round has no result and once
\* reveal was requested; a successful request is the step that sets
\* revealRequested, the flag is never reset and the two handles it recorded
\* never change afterwards.
C13_RevealOnce ==
    /\ [](\A roundId \in RoundIds :
            /\ ~rounds[roundId].resultSet => RequestRoundRevealErr(roundId) = "Result not set"
            /\ rounds[roundId].revealRequested => RequestRoundRevealErr(roundId) # "")
    /\ [][\A roundId \in RoundIds :
            /\ CallStep("requestRoundReveal", roundId, "") =>
                  /\ rounds[roundId].resultSet
                  /\ ~rounds[roundId].revealRequested
                  /\ rounds'[roundId].revealRequested
            /\ rounds[roundId].revealRequested =>
                  /\ rounds'[roundId].revealRequested
                  /\ rounds'[roundId].totalUpHandle = rounds[roundId].totalUpHandle
                  /\ rounds'[roundId].totalDownHandle = rounds[roundId].totalDownHandle]_vars

\* round 1's reveal was requested and its totals resolved since; a second
\* request is rejected, as is a request for round 2, which has no result
C13_Witness ==
    /\ rounds[1].revealRequested
    /\ rounds[1].totalsRevealed
    /\ rounds[1].totalUpHandle = toBytes32("totalUp", 1, "", rounds[1].totalUp)
    /\ rounds[1].totalUp > 0
    /\ RequestRoundRevealErr(1) = "Reveal requested"
    /\ RequestRoundRevealErr(2) = "Result not set"

\* the conditions under which requestClaim(roundId) by a passes its requirements
ClaimRequestable(roundId, a) ==
    /\ rounds[roundId].resultSet
    /\ bets[roundId][a].exists
    /\ ~bets[roundId][a].claimed
    /\ ~bets[roundId][a].claimRequested
    /\ rounds[roundId].result \in UpDown => rounds[roundId].totalsRevealed

\* C14: request-claim is accepted only when the round's result is set, the
\* caller has a bet on it that is neither claimed nor pending and, for an Up or
\* Down result, the totals are revealed; a successful request leaves the bet
\* claimed or pending, and neither flag is ever reset, so at most one
\* request-claim succeeds per bet.
C14_RequestClaimGuards ==
    /\ [](\A roundId \in RoundIds, a \in Addresses :
            RequestClaimErr(roundId, a) = "" => ClaimRequestable(roundId, a))
    /\ [][\A roundId \in RoundIds, a \in Addresses :
            /\ CallStep("requestClaim", roundId, a) =>
                  /\ ClaimRequestable(roundId, a)
                  /\ bets'[roundId][a].claimed \/ bets'[roundId][a].claimRequested
            /\ bets[roundId][a].claimRequested => bets'[roundId][a].claimRequested
            /\ bets[roundId][a].claimed => bets'[roundId][a].claimed
            /\ (bets'[roundId][a].claimRequested /\ ~bets[roundId][a].claimRequested)
                  => CallStep("requestClaim", roundId, a)]_vars

\* a claim was just requested on an Up/Down round: a second request by the same
\* bettor is rejected as pending, one by an address without a bet as "No bet"
C14_Witness ==
    /\ last.op = "requestClaim"
    /\ rounds[last.roundId].result \in UpDown
    /\ bets[last.roundId][last.caller].claimRequested
    /\ ~bets[last.roundId][last.caller].claimed
    /\ RequestClaimErr(last.roundId, last.caller) = "Claim pending"
    /\ \E a \in PoolUsers : RequestClaimErr(last.roundId, a) = "No bet"

\* TRUE of round record r when its result is Up or Down, its totals are revealed
\* and the disclosed total of the winning side is 0
EmptyWinningSide(r) ==
    /\ r.result \in UpDown
    /\ r.totalsRevealed
    /\ DisclosedWinning(r) = 0

\* C15: on a round with an Up/Down result, revealed totals and a disclosed
\* winning total of 0, request-claim is never blocked for an unclaimed bet, no
\* bet is ever pending, and the step that marks a bet claimed is a request-claim
\* that pays exactly the stake, adds it to totalPayout and leaves totalWins alone.
C15_EmptyWinningSideRefund ==
    /\ [](\A roundId \in RoundIds :
            EmptyWinningSide(rounds[roundId]) =>
               \A a \in Addresses :
                  /\ ~bets[roundId][a].claimRequested
                  /\ (bets[roundId][a].exists /\ ~bets[roundId][a].claimed)
                        => RequestClaimErr(roundId, a) = "")
    /\ [][\A roundId \in RoundIds, a \in Addresses :
            (EmptyWinningSide(rounds[roundId]) /\ ClaimedStep(roundId, a)) =>
               /\ last'.op = "requestClaim"
               /\ balance' = balance - bets[roundId][a].stake
               /\ last'.paid = bets[roundId][a].stake
               /\ ~bets'[roundId][a].claimRequested
               /\ userStats'[a].totalPayout = userStats[a].totalPayout + bets[roundId][a].stake
               /\ userStats'[a].totalWins = userStats[a].totalWins]_vars

\* a bettor on the losing side was just refunded on an Up/Down round nobody won
C15_Witness ==
    /\ last.op = "requestClaim"
    /\ EmptyWinningSide(rounds[last.roundId])
    /\ DisclosedLosing(rounds[last.roundId]) > 0
    /\ bets[last.roundId][last.caller].claimed
    /\ ~bets[last.roundId][last.caller].claimRequested
    /\ last.paid = stakeAmount
    /\ userStats[last.caller].totalPayout = stakeAmount
    /\ userStats[last.caller].totalWins = 0

\* TRUE when a's bet on roundId is on a direction other than the Up/Down result
\* of the round and the round's disclosed winning total is positive
LosingBet(roundId, a) ==
    /\ rounds[roundId].result \in UpDown
    /\ rounds[roundId].totalsRevealed
    /\ DisclosedWinning(rounds[roundId]) > 0
    /\ bets[roundId][a].exists
    /\ bets[roundId][a].direction # MatchingDirection(rounds[roundId].result)

\* C16: for a bet whose direction differs from the round's Up/Down result
\* (winning total > 0) resolve-claim is accepted with cleartext 0 only, marks the
\* bet claimed, transfers nothing and leaves the bettor's stats unchanged.
C16_LoserGetsNothing ==
    /\ [](\A roundId \in RoundIds, a \in Addresses :
            (LosingBet(roundId, a) /\ bets[roundId][a].claimRequested) =>
               \A c \in PayoutCleartextChoices(roundId, a) :
                  ClaimCallbackErr(roundId, a, c) = "" => c = 0)
    /\ [][\A roundId \in RoundIds, a \in Addresses :
            (LosingBet(roundId, a) /\ CallStep("claimCallback", roundId, a)) =>
               /\ last'.paid = 0
               /\ balance' = balance
               /\ bets'[roundId][a].claimed
               /\ userStats'[a] = userStats[a]]_vars

\* a losing bettor's claim was just settled with nothing paid
C16_Witness ==
    /\ last.op = "claimCallback"
    /\ LosingBet(last.roundId, last.caller)
    /\ bets[last.roundId][last.caller].claimed
    /\ last.paid = 0
    /\ userStats[last.caller].totalPayout = 0
    /\ userStats[last.caller].totalWins = 0
    /\ balance > 0

\* the other one of the directions Up (1) and Down (0)
OtherDirection(dir) == 1 - dir

\* the amount the settlement of a's bet on roundId pays in the execution that
\* differs from this one only in a's direction being dir: the confidential
\* totals, the fee and the payout recomputed as the contract computes them
PaidWithDirection(roundId, a, dir) ==
    LET r == rounds[roundId]
        b == bets[roundId][a]
        up == (r.encTotalUp - SelectStake(b.direction, 1, b.stake)) + SelectStake(dir, 1, b.stake)
        down == (r.encTotalDown - SelectStake(b.direction, 0, b.stake))
                   + SelectStake(dir, 0, b.stake)
        winning == WinningTotalAtResolve(r.result, up, down)
        losing == LosingTotalAtResolve(r.result, up, down)
        fee == FeeFor(r.result, up, down, feeBps) IN
    IF r.result = "Tie" \/ winning = 0 THEN b.stake
    ELSE PayoutEnc(dir, r.result, Payout(b.stake, winning, losing, fee))

\* TRUE when the last call settled the caller's bet (direction Up or Down) on a
\* round with an Up/Down result
BetJustSettled ==
    /\ last.op \in {"claimCallback", "requestClaim"}
    /\ bets[last.roundId][last.caller].claimed
    /\ bets[last.roundId][last.caller].direction \in {0, 1}
    /\ rounds[last.roundId].result \in UpDown

\* C17: the amount paid when a bettor's claim is settled is the same as in the
\* execution that differs only in that bettor's direction (Up instead of Down or
\* Down instead of Up), so the public outcome does not tell the direction.
C17_DirectionHidden ==
    BetJustSettled =>
        last.paid = PaidWithDirection(last.roundId, last.caller,
                       OtherDirection(bets[last.roundId][last.caller].direction))

\* the recomputation agrees with the contract on the direction actually chosen
PaidAsRecomputed ==
    BetJustSettled =>
        last.paid = PaidWithDirection(last.roundId, last.caller,
                       bets[last.roundId][last.caller].direction)

\* TRUE while reveal is requested for roundId and its totals are not yet revealed
RevealPending(roundId) ==
    rounds[roundId].revealRequested /\ ~rounds[roundId].totalsRevealed

\* TRUE while a's claim on roundId is requested and not yet settled
ClaimPending(roundId, a) ==
    bets[roundId][a].claimRequested /\ ~bets[roundId][a].claimed

C19_RoundMonotone ==
    [][\A roundId \in RoundIds :
         LET r == rounds[roundId]
             q == rounds'[roundId] IN
         /\ r.resultSet =>
               /\ q.resultSet
               /\ q.result = r.result
               /\ q.startPrice = r.startPrice
               /\ q.endPrice = r.endPrice
         /\ r.startPriceSet => (q.startPriceSet /\ q.startPrice = r.startPrice)
         /\ r.revealRequested => q.revealRequested
         /\ r.totalsRevealed =>
               /\ q.totalsRevealed
               /\ q.totalUp = r.totalUp
               /\ q.totalDown = r.totalDown
               /\ q.feeAmount = r.feeAmount]_vars

\* round 1 was finalized Up or Down and its totals revealed with a fee, and
\* round 2 was finalized afterwards
C19_Witness ==
    /\ last.op \in FinalizeOps
    /\ last.roundId = 2
    /\ rounds[1].result \in UpDown
    /\ rounds[1].totalsRevealed
    /\ rounds[1].feeAmount > 0
    /\ rounds[1].totalUp = stakeAmount

\* C20: for every round totalsRevealed implies revealRequested, revealRequested
\* implies resultSet, resultSet implies initialized, and resultSet holds exactly
\* when result is Up, Down or Tie (Unknown exactly when it does not hold).
C20_FlagOrder ==
    \A roundId \in RoundIds :
        LET r == rounds[roundId] IN
        /\ r.totalsRevealed => r.revealRequested
        /\ r.revealRequested => r.resultSet
        /\ r.resultSet => r.initialized
        /\ r.resultSet <=> r.result \in {"Up", "Down", "Tie"}
        /\ r.result = "Unknown" <=> ~r.resultSet

\* one round in each stage: round 0 revealed, round 1 finalized with a reveal
\* pending, round 2 open for betting with a bet on it, round 3 uninitialized
C20_Witness ==
    /\ rounds[0].totalsRevealed
    /\ rounds[1].revealRequested
    /\ ~rounds[1].totalsRevealed
    /\ rounds[1].result \in UpDown
    /\ rounds[2].initialized
    /\ ~rounds[2].resultSet
    /\ rounds[2].result = "Unknown"
    /\ ~rounds[3].initialized

\* the payout requestClaim selects confidentially for a's bet on roundId
SelectedPayout(roundId, a) ==
    LET r == rounds[roundId]
        b == bets[roundId][a] IN
    PayoutEnc(b.direction, r.result,
              Payout(b.stake, WinningTotal(r), LosingTotal(r), r.feeAmount))

\* C21: resolve-totals rejects every cleartext pair other than the round's
\* confidential sums and resolve-claim every cleartext other than the
\* confidentially selected payout; the handles recorded at request time stand
\* for those values, so disclosed totals always equal the confidential sums and
\* the amount a resolve-claim pays always equals the selected payout.
C21_ProofChecked ==
    /\ [](\A roundId \in RoundIds :
            /\ rounds[roundId].revealRequested =>
                  /\ publicDecrypt(rounds[roundId].totalUpHandle) = rounds[roundId].encTotalUp
                  /\ publicDecrypt(rounds[roundId].totalDownHandle) = rounds[roundId].encTotalDown
                  /\ \A c \in TotalsCleartextChoices(roundId) :
                        c # <<rounds[roundId].encTotalUp, rounds[roundId].encTotalDown>>
                           => ResolveTotalsErr(roundId, c) # ""
            /\ rounds[roundId].totalsRevealed =>
                  /\ rounds[roundId].totalUp = rounds[roundId].encTotalUp
                  /\ rounds[roundId].totalDown = rounds[roundId].encTotalDown
            /\ \A a \in Addresses :
                  bets[roundId][a].claimRequested =>
                     /\ publicDecrypt(claimHandles[roundId][a]) = SelectedPayout(roundId, a)
                     /\ \A c \in PayoutCleartextChoices(roundId, a) :
                           c # SelectedPayout(roundId, a)
                              => ClaimCallbackErr(roundId, a, c) # "")
    /\ [][\A roundId \in RoundIds, a \in Addresses :
            CallStep("claimCallback", roundId, a) =>
               last'.paid = SelectedPayout(roundId, a)]_vars

\* a winner was just paid the selected payout while another winner's claim is
\* pending: an inflated cleartext for it fails the proof, the true one passes
C21_Witness ==
    /\ last.op = "claimCallback"
    /\ last.paid > stakeAmount
    /\ rounds[PoolRound].totalUp + rounds[PoolRound].totalDown = 3 * stakeAmount
    /\ \E a \in PoolUsers :
          /\ ClaimPending(PoolRound, a)
          /\ ClaimCallbackErr(PoolRound, a, SelectedPayout(PoolRound, a) + stakeAmount)
                = "Invalid decryption proof"
          /\ ClaimCallbackErr(PoolRound, a, SelectedPayout(PoolRound, a)) = ""

\* C22: while a round's totals are not revealed its public totalUp, totalDown
\* and feeAmount are 0; while reveal is not requested both disclosure handles
\* are zero, so nothing can be decrypted; and once reveal is requested no bet
\* can be placed on the round any more.
C22_TotalsHidden ==
    \A roundId \in RoundIds :
        LET r == rounds[roundId] IN
        /\ ~r.totalsRevealed => (r.totalUp = 0 /\ r.totalDown = 0 /\ r.feeAmount = 0)
        /\ ~r.revealRequested => (r.totalUpHandle = NoHandle /\ r.totalDownHandle = NoHandle)
        /\ r.revealRequested =>
              \A a \in Addresses, v \in PaymentChoices : PlaceBetErr(roundId, a, v) # ""

\* three bets are on round 1, which has its result, and nothing is disclosed
\* yet: public totals 0, no handles; betting on it is closed
C22_Witness ==
    /\ rounds[PoolRound].resultSet
    /\ ~rounds[PoolRound].revealRequested
    /\ rounds[PoolRound].encTotalUp + rounds[PoolRound].encTotalDown = 3 * stakeAmount
    /\ rounds[PoolRound].totalUp = 0
    /\ rounds[PoolRound].totalDown = 0
    /\ rounds[PoolRound].totalUpHandle = NoHandle
    /\ PlaceBetErr(PoolRound, "alice", stakeAmount) # ""

\* the fees withdrawn so far: what was paid in, less what was paid out to
\* bettors, less what the contract still holds
FeesWithdrawn ==
    (SumOver([a \in Addresses |-> userStats[a].totalWagered], Addresses)
       - SumOver([a \in Addresses |-> userStats[a].totalPayout], Addresses))
    - balance

\* C23: withdraw-fees is accepted only from the current fee recipient and only
\* with feeAccrued > 0; it pays exactly feeAccrued and sets it to 0, nothing
\* else lowers feeAccrued; and the fees withdrawn so far plus feeAccrued equal
\* the sum of feeAmount over all rounds.
C23_WithdrawFees ==
    /\ [](\A a \in Addresses :
            WithdrawFeesErr(a) = "" => (a = feeRecipient /\ feeAccrued > 0))
    /\ [](FeesWithdrawn + feeAccrued
            = SumOver([roundId \in RoundIds |-> rounds[roundId].feeAmount], RoundIds))
    /\ [][/\ (last'.op = "withdrawFees" /\ vars' # vars) =>
               /\ last'.caller = feeRecipient
               /\ feeAccrued > 0
               /\ last'.paid = feeAccrued
               /\ balance' = balance - feeAccrued
               /\ feeAccrued' = 0
          /\ feeAccrued' < feeAccrued => last'.op = "withdrawFees"]_vars

\* the owner made alice the fee recipient and she withdrew the accrued fee; the
\* former recipient is rejected
C23_Witness ==
    /\ last.op = "withdrawFees"
    /\ last.caller = "alice"
    /\ last.paid > 0
    /\ last.paid = rounds[PoolRound].feeAmount
    /\ feeAccrued = 0
    /\ WithdrawFeesErr(OwnerAddr) = "Only fee recipient"

\* the rounds on which a's bet matched the Up/Down result and is settled
SettledWinningBets(a) ==
    {roundId \in RoundIds :
        /\ bets[roundId][a].claimed
        /\ rounds[roundId].result \in UpDown
        /\ bets[roundId][a].direction = MatchingDirection(rounds[roundId].result)}

\* C24: every address's totalWins equals the number of its settled bets whose
\* direction matched the round's Up/Down result.
C24_WinsCounted ==
    \A a \in Addresses : userStats[a].totalWins = Cardinality(SettledWinningBets(a))

ClaimOps == {"claimCallback", "requestClaim"}

\* the amount the step transfers to a as the settlement of a claim
ClaimTransfer(a) ==
    IF last'.op \in ClaimOps /\ last'.caller = a /\ vars' # vars THEN last'.paid ELSE 0

\* C25: for every address totalBets is the number of bets it has placed,
\* totalWagered is totalBets * stakeAmount, totalPayout grows in every step by
\* exactly the amount a claim transfers to the address in that step, and none
\* of the four counters ever decreases.
C25_StatsExact ==
    /\ [](\A a \in Addresses :
            /\ userStats[a].totalBets = Cardinality(RoundsBetOn(a))
            /\ userStats[a].totalWagered = userStats[a].totalBets * stakeAmount)
    /\ [][\A a \in Addresses :
            /\ userStats'[a].totalPayout = userStats[a].totalPayout + ClaimTransfer(a)
            /\ ClaimTransfer(a) > 0 => balance' = balance - ClaimTransfer(a)
            /\ userStats'[a].totalBets >= userStats[a].totalBets
            /\ userStats'[a].totalWagered >= userStats[a].totalWagered
            /\ userStats'[a].totalWins >= userStats[a].totalWins
            /\ userStats'[a].totalPayout >= userStats[a].totalPayout]_vars

\* alice has bet on two rounds and was just refunded her stake on the first
C25_Witness ==
    /\ last.op = "requestClaim"
    /\ last.caller = "alice"
    /\ last.paid = stakeAmount
    /\ userStats["alice"].totalBets = 2
    /\ userStats["alice"].totalWagered = 2 * stakeAmount
    /\ userStats["alice"].totalPayout = stakeAmount

\* the addresses that have placed at least one bet
Bettors == {a \in Addresses : RoundsBetOn(a) # {}}

\* getParticipantCount()
getParticipantCount == Len(participants)

\* C26: the participant directory holds exactly the addresses that have placed
\* a bet, each once (participant-count = number of distinct bettors); it only
\* grows at its end: a first bet appends the bettor, any other step, a further
\* bet of a listed address included, leaves it as it is.
C26_ParticipantDirectory ==
    /\ []( /\ {participants[i] : i \in 1..Len(participants)} = Bettors
           /\ isParticipant = Bettors
           /\ getParticipantCount = Cardinality(Bettors))
    /\ [][/\ Len(participants') >= Len(participants)
          /\ SubSeq(participants', 1, Len(participants)) = participants
          /\ \A a \in Addresses :
                (last'.op = "placeBet" /\ last'.caller = a /\ vars' # vars) =>
                   participants' = IF a \in Bettors THEN participants
                                    ELSE Append(participants, a)
          /\ participants' # participants => last'.op = "placeBet"]_vars

\* bob then alice made their first bets; bob is listed once and first
C26_Witness ==
    /\ last.op = "placeBet"
    /\ last.caller = "alice"
    /\ participants = <<"bob", "alice">>
    /\ getParticipantCount = 2

\* bob has bet on two rounds and is listed once
C26_RepeatBettor ==
    /\ last.op = "placeBet"
    /\ userStats["bob"].totalBets = 2
    /\ participants = <<"bob">>

\* C27: place-bet with a payment other than stakeAmount is rejected whatever
\* the round and the sender; a rejected place-bet changes nothing (no bet, no
\* round initialization, no participant, no stats); and every existing bet's
\* stake equals stakeAmount.
C27_WrongStakeRejected ==
    /\ [](\A roundId \in RoundIds, a \in Addresses, v \in PaymentChoices :
            v # stakeAmount => PlaceBetErr(roundId, a, v) # "")
    /\ [](\A roundId \in RoundIds, a \in Addresses :
            bets[roundId][a].exists => bets[roundId][a].stake = stakeAmount)
    /\ [][last'.op = "placeBet reverted" =>
            /\ rounds' = rounds
            /\ UNCHANGED <<bets, participants, isParticipant, userStats, balance>>]_vars

\* alice's bet on the untouched round 1 was just rejected; it is rejected for
\* the payment alone, and the round is still uninitialized
C27_Witness ==
    /\ last.op = "placeBet reverted"
    /\ last.caller = "alice"
    /\ PlaceBetErr(PoolRound, "alice", stakeAmount - 1) = "Incorrect stake"
    /\ PlaceBetErr(PoolRound, "alice", stakeAmount) = ""
    /\ ~rounds[PoolRound].initialized
    /\ participants = <<>>
    /\ balance = 0

RevertOps == {"placeBet reverted", "finalizeRound reverted", "requestClaim reverted",
              "claimCallback reverted", "withdrawFees reverted", "setFeeBps reverted",
              "setter reverted"}

\* C28: a rejected call changes nothing of the contract's state; a claim whose
\* payment the recipient rejects is rejected as a whole ("Transfer failed"), so
\* such a bet is never marked claimed by a refund and its owner's stats never
\* record a payout.
C28_RejectedCallsAtomic ==
    /\ [](\A roundId \in RoundIds, a \in RejectingAddrs :
            /\ ( /\ RefundsImmediately(rounds[roundId])
                 /\ rounds[roundId].resultSet
                 /\ bets[roundId][a].exists
                 /\ ~bets[roundId][a].claimed )
                  => RequestClaimErr(roundId, a) = "Transfer failed"
            /\ (ClaimPending(roundId, a) /\ SelectedPayout(roundId, a) > 0)
                  => ClaimCallbackErr(roundId, a, SelectedPayout(roundId, a)) = "Transfer failed"
            /\ bets[roundId][a].claimed => SelectedPayout(roundId, a) = 0
            /\ userStats[a].totalPayout = 0
            /\ userStats[a].totalWins = 0)
    /\ [][last'.op \in RevertOps => UNCHANGED stateVars]_vars

\* the refund of the rejecting address on a Tie round was just rejected: the
\* contract holds the stake, the bet is unclaimed, the stats show no payout
C28_Witness ==
    /\ last.op = "requestClaim reverted"
    /\ last.caller \in RejectingAddrs
    /\ rounds[PoolRound].result = "Tie"
    /\ RequestClaimErr(PoolRound, last.caller) = "Transfer failed"
    /\ balance >= bets[PoolRound][last.caller].stake
    /\ bets[PoolRound][last.caller].exists
    /\ ~bets[PoolRound][last.caller].claimed
    /\ userStats[last.caller].totalPayout = 0

\* a finalization of the untouched round 0 was just rejected for its price
\* alone and the round is still uninitialized
C28_FinalizeRejected ==
    /\ last.op = "finalizeRound reverted"
    /\ last.roundId = 0
    /\ FinalizeErr(0, 0, now) = "Invalid price"
    /\ FinalizeErr(0, 50000, now) = ""
    /\ ~rounds[0].initialized

\* C29: feeBps never exceeds MAX_FEE_BPS: the constructor and set-fee-bps
\* reject larger values; the three setters reject every caller but the owner;
\* fee bps, fee recipient and max price age change only in a successful setter
\* call by the owner, and the owner never changes; so every round's feeAmount
\* is at most 20% of its losing total.
C29_OwnerConfig ==
    /\ [](feeBps <= MAX_FEE_BPS)
    /\ [](\A b \in FeeBpsInputs :
            b > MAX_FEE_BPS =>
               /\ ConstructorErr(stakeAmount, b) = "Fee too high"
               /\ \A a \in Addresses : SetFeeBpsErr(a, b) # "")
    /\ [](\A a \in Addresses, b \in FeeBpsInputs :
            a # owner => (OnlyOwnerErr(a) = "Only owner" /\ SetFeeBpsErr(a, b) = "Only owner"))
    /\ [](\A roundId \in RoundIds :
            rounds[roundId].feeAmount * BPS_DENOMINATOR
               <= MAX_FEE_BPS * DisclosedLosing(rounds[roundId]))
    /\ [][/\ feeBps' # feeBps => (last'.op = "setFeeBps" /\ last'.caller = owner)
          /\ feeRecipient' # feeRecipient =>
                (last'.op = "setFeeRecipient" /\ last'.caller = owner)
          /\ maxPriceAge' # maxPriceAge =>
                (last'.op = "setMaxPriceAge" /\ last'.caller = owner)
          /\ owner' = owner]_vars

\* the fee rate is at its cap and a round was resolved with a fee of exactly 20%
\* of the losing total; a higher rate and a setter call by alice are rejected
C29_Witness ==
    /\ last.op = "resolveTotalsCallback"
    /\ feeBps = MAX_FEE_BPS
    /\ rounds[PoolRound].feeAmount > 0
    /\ rounds[PoolRound].feeAmount * 5 = DisclosedLosing(rounds[PoolRound])
    /\ feeRecipient = "alice"
    /\ maxPriceAge = 0
    /\ SetFeeBpsErr(owner, MAX_FEE_BPS + 1) = "Fee too high"
    /\ SetFeeBpsErr("alice", 0) = "Only owner"

\* what the settlement of a's bet on the resolved round roundId pays: the stake
\* on a Tie or when nobody is on the winning side, else the selected payout
SettlementOf(roundId, a) ==
    IF RefundsImmediately(rounds[roundId]) THEN bets[roundId][a].stake
    ELSE SelectedPayout(roundId, a)

\* TRUE when the settlement amounts of the bets on roundId are determined: the
\* round is a Tie or its totals are revealed
Resolved(roundId) ==
    rounds[roundId].resultSet
       /\ (rounds[roundId].result = "Tie" \/ rounds[roundId].totalsRevealed)

\* what the contract still owes to a for its bet on roundId: nothing without an
\* unclaimed bet, the settlement amount on a resolved round, and the stake it
\* holds while the round is not resolved
Owed(roundId, a) ==
    IF ~bets[roundId][a].exists \/ bets[roundId][a].claimed THEN 0
    ELSE IF Resolved(roundId) THEN SettlementOf(roundId, a)
    ELSE bets[roundId][a].stake

OwedTotal ==
    SumOver([p \in RoundIds \X Addresses |-> Owed(p[1], p[2])], RoundIds \X Addresses)

\* the sum of the settlement amounts of all bets on the resolved round roundId
SettlementsOn(roundId) ==
    SumOver([a \in Addresses |-> IF bets[roundId][a].exists THEN SettlementOf(roundId, a)
                                 ELSE 0], Addresses)

\* C30: the balance always covers feeAccrued plus everything still owed to
\* unclaimed bets; on every resolved round the settlement amounts of all bets
\* plus the round's fee do not exceed the stakes placed on it; so no claim of
\* an address that accepts payments and no fee withdrawal fails on the transfer.
C30_Solvency ==
    /\ balance >= feeAccrued + OwedTotal
    /\ \A roundId \in RoundIds :
          Resolved(roundId) =>
             SettlementsOn(roundId) + rounds[roundId].feeAmount <= StakesOn(roundId)
    /\ \A roundId \in RoundIds, a \in Addresses \ RejectingAddrs :
          /\ RequestClaimErr(roundId, a) # "Transfer failed"
          /\ ClaimPending(roundId, a) =>
                ClaimCallbackErr(roundId, a, SelectedPayout(roundId, a)) = ""
    /\ feeRecipient \notin RejectingAddrs => WithdrawFeesErr(feeRecipient) # "Transfer failed"

\* the fee of a round was withdrawn before its winner was paid: the balance is
\* exactly what the pending winner is owed
C30_Witness ==
    /\ last.op = "withdrawFees"
    /\ last.paid > 0
    /\ feeAccrued = 0
    /\ OwedTotal > stakeAmount
    /\ balance = OwedTotal
    /\ \E roundId \in RoundIds, a \in Addresses : ClaimPending(roundId, a)

\* TRUE when roundId has no result and the round period right after its end,
\* the only one in which _finalizeRoundFromFeed accepts it, is over
MissedRound(roundId) ==
    ~rounds[roundId].resultSet /\ getCurrentRound > roundId + 1

\* C31: no stake is locked by the lifecycle: a round with a bet on it that
\* nobody finalized during the round period right after its end can still get
\* a result (a finalization with a positive fresh price is accepted), so that
\* the bet can go on to claimed.
C31_NoLockedStake ==
    \A roundId \in RoundIds, a \in Addresses :
        (bets[roundId][a].exists /\ MissedRound(roundId)) =>
            \E f \in FeedChoices : GoodFeed(f) /\ FinalizeErr(roundId, f[1], f[2]) = ""

\* a missed round stays missed in every step, whatever is called and whatever
\* the feed answers, and while it is missed every bet on it is unclaimed and
\* every claim call on it is rejected: the stake stays in the contract for good
C31_LockedForGood ==
    /\ [](\A roundId \in RoundIds :
            MissedRound(roundId) =>
               /\ \A f \in FeedChoices : FinalizeErr(roundId, f[1], f[2]) # ""
               /\ \A d \in PerformDataChoices, f \in FeedChoices :
                     PerformUpkeepErr(d, f[1], f[2]) = "" => UpkeepTarget(d) # roundId
               /\ \A a \in Addresses :
                     /\ ~bets[roundId][a].claimed
                     /\ RequestClaimErr(roundId, a) # ""
                     /\ \A c \in PayoutCleartextChoices(roundId, a) :
                           ClaimCallbackErr(roundId, a, c) # "")
    /\ [][\A roundId \in RoundIds : MissedRound(roundId) => MissedRound(roundId)']_vars

\* a bet is on round 1, which was not finalized during round 2
C31_Locked ==
    /\ bets[1]["alice"].exists
    /\ MissedRound(1)
    /\ balance >= stakeAmount

\* startTime(r): the start time _initRound gives round roundId
startTimeOf(roundId) == roundId * ROUND_SECONDS

\* the bettors of roundId with their stakes and directions
BetsOn(roundId) ==
    {<<a, bets[roundId][a].stake, bets[roundId][a].direction>> :
        a \in {x \in Addresses : bets[roundId][x].exists}}

\* C32: no bet on round r is accepted at a time >= startTime(r) (the start time
\* an initialized round records is r * ROUND_SECONDS); from then on, and so
\* after r's result is set, the set of bets on r with their stakes and
\* directions and r's two confidential totals never change.
C32_BettingClosesAtStart ==
    /\ [](\A roundId \in RoundIds :
            /\ rounds[roundId].initialized => rounds[roundId].startTime = startTimeOf(roundId)
            /\ rounds[roundId].resultSet => now >= startTimeOf(roundId)
            /\ now >= startTimeOf(roundId) =>
                  \A a \in Addresses, v \in PaymentChoices : PlaceBetErr(roundId, a, v) # "")
    /\ [][\A roundId \in RoundIds :
            (now >= startTimeOf(roundId) \/ rounds[roundId].resultSet) =>
               /\ BetsOn(roundId)' = BetsOn(roundId)
               /\ rounds'[roundId].encTotalUp = rounds[roundId].encTotalUp
               /\ rounds'[roundId].encTotalDown = rounds[roundId].encTotalDown
               /\ ~CallStep("placeBet", roundId, last'.caller)]_vars

\* two bets were placed on round 1 before its start; the round has started and
\* has its result, a claim on it was just settled, and carol, who has no bet on
\* it, is rejected
C32_Witness ==
    /\ last.op \in ClaimOps
    /\ last.roundId = PoolRound
    /\ now >= startTimeOf(PoolRound)
    /\ rounds[PoolRound].resultSet
    /\ Cardinality(BetsOn(PoolRound)) = 2
    /\ rounds[PoolRound].encTotalUp + rounds[PoolRound].encTotalDown = 2 * stakeAmount
    /\ ~bets[PoolRound]["carol"].exists
    /\ PlaceBetErr(PoolRound, "carol", stakeAmount) = "Bet next round only"

\* the first round ever finalized: finalizations go in increasing order, so it
\* is the lowest round that has a result
FirstFinalized == CHOOSE q \in FinalizedRounds : \A p \in FinalizedRounds : q <= p

\* C33: the first round ever finalized gets startPrice = endPrice = the feed
\* price its finalization read (whichever positive fresh price that is) and
\* result Tie; every bet on it is settled by request-claim alone, which pays
\* back exactly the stake, with no win recorded and never a pending claim.
C33_FirstRoundTie ==
    /\ [](FinalizedRounds # {} =>
            LET r == rounds[FirstFinalized] IN
            /\ r.result = "Tie"
            /\ r.startPrice = r.endPrice
            /\ r.endPrice > 0
            /\ r.feeAmount = 0
            /\ \A a \in Addresses :
                  /\ ~bets[FirstFinalized][a].claimRequested
                  /\ claimHandles[FirstFinalized][a] = NoHandle
                  /\ (bets[FirstFinalized][a].exists /\ ~bets[FirstFinalized][a].claimed
                        /\ a \notin RejectingAddrs)
                        => RequestClaimErr(FirstFinalized, a) = "")
    /\ [][\A roundId \in RoundIds :
            /\ (FinalizedStep(roundId) /\ ~lastFinalizedRoundSet) =>
                  /\ rounds'[roundId].startPrice = last'.price
                  /\ rounds'[roundId].endPrice = last'.price
                  /\ rounds'[roundId].result = "Tie"
                  /\ FirstFinalized' = roundId
            /\ \A a \in Addresses :
                  (FinalizedRounds # {} /\ roundId = FirstFinalized /\ ClaimedStep(roundId, a)) =>
                     /\ last'.op = "requestClaim"
                     /\ last'.paid = bets[roundId][a].stake
                     /\ balance' = balance - bets[roundId][a].stake
                     /\ userStats'[a].totalWins = userStats[a].totalWins]_vars

\* round 1 was the first round finalized (round 0 never was), at price 60000:
\* it is a Tie and a bettor on it was just paid back the stake
C33_Witness ==
    /\ last.op = "requestClaim"
    /\ last.roundId = PoolRound
    /\ last.paid = stakeAmount
    /\ FinalizedRounds = {PoolRound}
    /\ FirstFinalized = PoolRound
    /\ rounds[PoolRound].startPrice = 60000
    /\ rounds[PoolRound].endPrice = 60000
    /\ rounds[PoolRound].result = "Tie"
    /\ Cardinality(BetsOn(PoolRound)) = 3

\* the claim payments sent whose handler has not yet recorded them in the stats
ClaimsInTransfer ==
    SumOver([i \in 1..Len(inTransfer) |->
                IF inTransfer[i].op = "withdrawFees" THEN 0 ELSE inTransfer[i].paid],
            1..Len(inTransfer))

\* the fees paid out so far: what was paid in, less what was paid to bettors,
\* less what the contract still holds
FeesPaidOut ==
    ((SumOver([a \in Addresses |-> userStats[a].totalWagered], Addresses)
        - SumOver([a \in Addresses |-> userStats[a].totalPayout], Addresses))
       - ClaimsInTransfer)
    - balance

\* C34: whatever the recipient of a payment calls while it is being paid, no
\* bet and no accrued fee is paid twice: the flag / reset is written before
\* the transfer, so during the transfer a claim of the bet being paid is
\* rejected and a withdrawal finds only fees accrued since; every payment is
\* the step that marks one bet claimed and pays its settlement amount, or a
\* withdrawal of exactly feeAccrued that zeroes it; claimed is never reset; the
\* fees paid out plus feeAccrued equal the rounds' fees, and the balance always
\* covers feeAccrued and all unclaimed bets.
C34_ReentrancySafe ==
    /\ [](\A i \in 1..Len(inTransfer) :
            LET t == inTransfer[i] IN
            t.op # "withdrawFees" =>
               /\ bets[t.roundId][t.caller].claimed
               /\ RequestClaimErr(t.roundId, t.caller) = "Already claimed"
               /\ \A c \in PayoutCleartextChoices(t.roundId, t.caller) \cup {t.paid} :
                     ClaimCallbackErr(t.roundId, t.caller, c) # "")
    /\ [](balance >= feeAccrued + OwedTotal)
    /\ [](FeesPaidOut + feeAccrued
            = SumOver([roundId \in RoundIds |-> rounds[roundId].feeAmount], RoundIds))
    /\ [][/\ \A roundId \in RoundIds, a \in Addresses :
               bets[roundId][a].claimed => bets'[roundId][a].claimed
          /\ balance' < balance =>
               \/ /\ last'.op \in {"withdrawFees", "withdrawFees enters recipient"}
                  /\ balance' = balance - feeAccrued
                  /\ feeAccrued' = 0
                  /\ UNCHANGED bets
               \/ \E roundId \in RoundIds, a \in Addresses :
                     /\ ClaimedStep(roundId, a)
                     /\ balance' = balance - SettlementOf(roundId, a)
                     /\ \A p \in RoundIds, x \in Addresses :
                           (p # roundId \/ x # a) => bets'[p][x] = bets[p][x]
                     /\ feeAccrued' = feeAccrued]_vars

\* a winner is being paid and has just tried, from inside the transfer, to
\* claim the same bet again: both claim calls are rejected
C34_Witness ==
    /\ Len(inTransfer) = 1
    /\ inTransfer[1].op = "claimCallback"
    /\ inTransfer[1].paid > stakeAmount
    /\ last.op = "claimCallback reverted"
    /\ last.caller = inTransfer[1].caller
    /\ ClaimCallbackErr(PoolRound, last.caller, inTransfer[1].paid) = "Already claimed"
    /\ RequestClaimErr(PoolRound, last.caller) = "Already claimed"
    /\ userStats[last.caller].totalPayout = 0

\* the fee recipient withdrew the fees from inside the payment of a bettor,
\* and the bettor's payment is still covered
C34_NestedWithdrawal ==
    /\ Len(inTransfer) = 2
    /\ inTransfer[1].op = "claimCallback"
    /\ inTransfer[2].op = "withdrawFees"
    /\ inTransfer[2].paid > 0
    /\ feeAccrued = 0
    /\ WithdrawFeesErr(OwnerAddr) = "No fees"

\* TRUE of a step that leaves a's bets, claim handles and stats as they are
OwnRecordsUnchanged(a) ==
    /\ \A roundId \in RoundIds :
          /\ bets'[roundId][a] = bets[roundId][a]
          /\ claimHandles'[roundId][a] = claimHandles[roundId][a]
    /\ userStats'[a] = userStats[a]

\* C35: request-claim and resolve-claim act on the caller's own bet only: an
\* address without a bet on the round is rejected, a call by x leaves the bets,
\* claim handles and stats of every other address unchanged, a bet's flags and
\* claim handle change only in a claim call by its owner, and every payment
\* of a claim goes to the caller whose bet it settles (the balance falls by
\* the amount recorded in the caller's totalPayout).
C35_OwnBetOnly ==
    /\ [](\A roundId \in RoundIds, a \in Addresses :
            ~bets[roundId][a].exists =>
               /\ RequestClaimErr(roundId, a) # ""
               /\ \A c \in PayoutCleartextChoices(roundId, a) :
                     ClaimCallbackErr(roundId, a, c) # "")
    /\ [][\A y \in Addresses :
            /\ last'.caller # y => OwnRecordsUnchanged(y)
            /\ \A roundId \in RoundIds :
                  /\ (bets[roundId][y].exists /\ bets'[roundId][y] # bets[roundId][y]) =>
                        last'.op \in ClaimOps /\ last'.caller = y /\ last'.roundId = roundId
                  /\ claimHandles'[roundId][y] # claimHandles[roundId][y] =>
                        last'.op = "requestClaim" /\ last'.caller = y /\ last'.roundId = roundId
                  /\ ClaimedStep(roundId, y) =>
                        /\ last'.caller = y
                        /\ balance' = balance - last'.paid
                        /\ userStats'[y].totalPayout = userStats[y].totalPayout + last'.paid
                        /\ \A x \in Addresses \ {y} :
                              userStats'[x].totalPayout = userStats[x].totalPayout]_vars

\* alice was just paid her winnings while bob's claim is pending with its
\* handle, unclaimed, and carol, who has no bet, is rejected by both claim calls
C35_Witness ==
    /\ last.op = "claimCallback"
    /\ last.caller = "alice"
    /\ last.paid > stakeAmount
    /\ ClaimPending(PoolRound, "bob")
    /\ claimHandles[PoolRound]["bob"] # NoHandle
    /\ userStats["bob"].totalPayout = 0
    /\ ~bets[PoolRound]["carol"].exists
    /\ RequestClaimErr(PoolRound, "carol") = "No bet"
    /\ ClaimCallbackErr(PoolRound, "carol", 0) = "No bet"

\* TRUE of a step that is a successful set-fee-bps call
SetFeeBpsStep == last'.op = "setFeeBps" /\ vars' # vars

\* C36: resolve-totals stores a round's fee computed with the feeBps in force in
\* that step; a set-fee-bps changes no round record, not feeAccrued, not the
\* balance and no bet, claim handle or settlement amount; the feeAmount of a
\* revealed round never changes; and every claim payout is computed from the
\* stored feeAmount, whatever feeBps is when the claim is requested or paid.
C36_FeeFixedAtResolve ==
    [][/\ SetFeeBpsStep =>
            /\ rounds' = rounds
            /\ feeAccrued' = feeAccrued
            /\ balance' = balance
            /\ UNCHANGED <<bets, claimHandles, userStats>>
            /\ \A roundId \in RoundIds, a \in Addresses :
                  (Resolved(roundId) /\ bets[roundId][a].exists) =>
                     SettlementOf(roundId, a)' = SettlementOf(roundId, a)
       /\ \A roundId \in RoundIds :
            /\ TotalsResolvedStep(roundId) =>
                  /\ rounds'[roundId].feeAmount =
                        FeeFor(rounds'[roundId].result, rounds'[roundId].totalUp,
                               rounds'[roundId].totalDown, feeBps)
                  /\ feeAccrued' = feeAccrued + rounds'[roundId].feeAmount
            /\ rounds[roundId].totalsRevealed =>
                  rounds'[roundId].feeAmount = rounds[roundId].feeAmount
            /\ \A a \in Addresses :
                  /\ CallStep("requestClaim", roundId, a) =>
                        IF RefundsImmediately(rounds[roundId])
                        THEN last'.paid = bets[roundId][a].stake
                        ELSE publicDecrypt(claimHandles'[roundId][a]) =
                                PayoutEnc(bets[roundId][a].direction, rounds[roundId].result,
                                          Payout(bets[roundId][a].stake,
                                                 DisclosedWinning(rounds[roundId]),
                                                 DisclosedLosing(rounds[roundId]),
                                                 rounds[roundId].feeAmount))
                  /\ CallStep("claimCallback", roundId, a) =>
                        last'.paid =
                           PayoutEnc(bets[roundId][a].direction, rounds[roundId].result,
                                     Payout(bets[roundId][a].stake,
                                            DisclosedWinning(rounds[roundId]),
                                            DisclosedLosing(rounds[roundId]),
                                            rounds[roundId].feeAmount))]_vars

\* the round was resolved at the highest rate (fee 30 on a losing total of
\* 150), the owner then set the rate to 0, and the winner was just paid with
\* the stored fee deducted
C36_Witness ==
    /\ last.op = "claimCallback"
    /\ feeBps = 0
    /\ rounds[PoolRound].feeAmount = (stakeAmount * MAX_FEE_BPS) \div BPS_DENOMINATOR
    /\ rounds[PoolRound].feeAmount > 0
    /\ last.paid = (2 * stakeAmount) - rounds[PoolRound].feeAmount
    /\ last.paid # Payout(stakeAmount, stakeAmount, stakeAmount,
                          FeeFor(rounds[PoolRound].result, rounds[PoolRound].totalUp,
                                 rounds[PoolRound].totalDown, feeBps))

\* performData of every shape: empty, malformed, and the encoding of each round id
AllPerformData == {<<>>, <<0, 0>>} \cup {<<n>> : n \in RoundIds}

\* C37: whatever performData it is given, performUpkeep hands round
\* currentRound - 1 to the finalization and is rejected while currentRound = 0;
\* a successful performUpkeep is made during round currentRound, gives round
\* currentRound - 1 its result and leaves every other round's record unchanged.
C37_UpkeepTargetsLastRound ==
    /\ [](\A d \in AllPerformData, f \in FeedChoices :
            /\ getCurrentRound = 0 => PerformUpkeepErr(d, f[1], f[2]) = "No completed round"
            /\ getCurrentRound > 0 =>
                  /\ UpkeepTarget(d) = getCurrentRound - 1
                  /\ PerformUpkeepErr(d, f[1], f[2])
                        = FinalizeErr(getCurrentRound - 1, f[1], f[2]))
    /\ [][(last'.op = "performUpkeep" /\ vars' # vars) =>
            /\ getCurrentRound > 0
            /\ last'.roundId = getCurrentRound - 1
            /\ FinalizedStep(getCurrentRound - 1)
            /\ \A roundId \in RoundIds \ {getCurrentRound - 1} :
                  rounds'[roundId] = rounds[roundId]]_vars

\* performUpkeep just finalized round 1 during round 2; performData encoding
\* round 2, round 0 or nothing targets round 1 as well, and round 2 has no result
C37_Witness ==
    /\ last.op = "performUpkeep"
    /\ last.roundId = 1
    /\ getCurrentRound = 2
    /\ rounds[1].resultSet
    /\ ~rounds[2].resultSet
    /\ UpkeepTarget(<<2>>) = 1
    /\ UpkeepTarget(<<0>>) = 1
    /\ UpkeepTarget(<<>>) = 1
    /\ UpkeepTarget(<<0, 0>>) = 1

RevealOps == {"requestRoundReveal", "resolveTotalsCallback"}

\* TRUE of a step that leaves the record of every round but roundId, and every
\* bet and claim handle on every round but roundId, unchanged
OtherRoundsUnchanged(roundId) ==
    \A q \in RoundIds \ {roundId} :
        /\ rounds'[q] = rounds[q]
        /\ bets'[q] = bets[q]
        /\ claimHandles'[q] = claimHandles[q]

\* TRUE of a step that leaves the bets, claim handles and stats of every
\* address but a unchanged
OtherAddressesUnchanged(a) == \A y \in Addresses \ {a} : OwnRecordsUnchanged(y)

\* C38: a request-round-reveal, resolve-totals, request-claim or resolve-claim
\* on round r leaves every other round's record and every bet on other rounds
\* unchanged (the two reveal calls change no bet and no stats at all, the two
\* claim calls no round record); a place-bet or claim call by address a leaves
\* every other address's bets and stats unchanged; a finalization of round r
\* changes only r's record and the last-finalized id and price.
C38_Isolation ==
    [][vars' # vars =>
         /\ last'.op \in (RevealOps \cup ClaimOps) => OtherRoundsUnchanged(last'.roundId)
         /\ last'.op \in RevealOps =>
               UNCHANGED <<bets, claimHandles, userStats, participants, isParticipant,
                           balance, cfgVars, finVars>>
         /\ last'.op \in ClaimOps =>
               /\ OtherAddressesUnchanged(last'.caller)
               /\ UNCHANGED <<rounds, participants, isParticipant, feeAccrued, cfgVars, finVars>>
         /\ last'.op = "placeBet" =>
               /\ OtherAddressesUnchanged(last'.caller)
               /\ OtherRoundsUnchanged(last'.roundId)
               /\ UNCHANGED <<claimHandles, feeAccrued, cfgVars, finVars>>
         /\ last'.op \in FinalizeOps =>
               /\ \A q \in RoundIds \ {last'.roundId} : rounds'[q] = rounds[q]
               /\ UNCHANGED <<bets, claimHandles, userStats, participants, isParticipant,
                              feeAccrued, cfgVars, balance>>]_vars

\* alice's bet on round 1 was just settled while bob's bet on round 2, placed
\* after hers, is open and untouched: round 2 has no result, bob no payout
C38_Witness ==
    /\ last.op \in ClaimOps
    /\ last.roundId = 1
    /\ last.caller = "alice"
    /\ bets[1]["alice"].claimed
    /\ bets[2]["bob"].exists
    /\ ~bets[2]["bob"].claimed
    /\ ~bets[2]["bob"].claimRequested
    /\ rounds[2].initialized
    /\ ~rounds[2].resultSet
    /\ userStats["bob"] = [EmptyStats EXCEPT !.totalBets = 1, !.totalWagered = stakeAmount]

\* C39: for every bet, claimRequested or claimed implies that the bet exists
\* and its round has a result; claimRequested implies revealed totals, an Up or
\* Down result and a stored non-zero payout handle; a bet on a round that
\* settles by immediate refund (Tie, or nobody on the winning side) is never
\* claimRequested, so once refunded it is claimed with claimRequested false,
\* and a claimed bet on any other round went through claimRequested; exists,
\* claimRequested and claimed never go back to false; and pending-claim reports
\* pending exactly when claimRequested holds and claimed does not, together
\* with the stored handle.
C39_BetLifecycle ==
    /\ [](\A roundId \in RoundIds, a \in Addresses :
            LET b == bets[roundId][a]
                r == rounds[roundId] IN
            /\ (b.claimRequested \/ b.claimed) => (b.exists /\ r.resultSet)
            /\ b.claimRequested =>
                  /\ r.totalsRevealed
                  /\ r.result \in UpDown
                  /\ DisclosedWinning(r) > 0
                  /\ claimHandles[roundId][a] # NoHandle
            /\ ~b.claimRequested => claimHandles[roundId][a] = NoHandle
            /\ (b.exists /\ r.resultSet /\ RefundsImmediately(r)) => ~b.claimRequested
            /\ (b.claimed /\ ~b.claimRequested) => RefundsImmediately(r)
            /\ (b.claimed /\ b.claimRequested) => ~RefundsImmediately(r)
            /\ getPendingClaim(roundId, a)[1] <=> (b.claimRequested /\ ~b.claimed)
            /\ getPendingClaim(roundId, a)[2] = claimHandles[roundId][a])
    /\ [][\A roundId \in RoundIds, a \in Addresses :
            /\ bets[roundId][a].exists => bets'[roundId][a].exists
            /\ bets[roundId][a].claimRequested => bets'[roundId][a].claimRequested
            /\ bets[roundId][a].claimed => bets'[roundId][a].claimed
            /\ (ClaimedStep(roundId, a) /\ last'.op = "requestClaim") =>
                  /\ RefundsImmediately(rounds[roundId])
                  /\ ~bets'[roundId][a].claimRequested
                  /\ ~getPendingClaim(roundId, a)[1]'
            /\ (ClaimedStep(roundId, a) /\ last'.op = "claimCallback") =>
                  /\ getPendingClaim(roundId, a)[1]
                  /\ ~getPendingClaim(roundId, a)[1]']_vars

\* alice's bet on the Tie round 1 is settled by refund (claimed, never
\* requested, no handle) and bob's claim on the Up/Down round 2 was just
\* settled after having been pending
C39_Witness ==
    /\ last.op = "claimCallback"
    /\ last.caller = "bob"
    /\ last.roundId = 2
    /\ rounds[1].result = "Tie"
    /\ bets[1]["alice"].claimed
    /\ ~bets[1]["alice"].claimRequested
    /\ claimHandles[1]["alice"] = NoHandle
    /\ rounds[2].result \in UpDown
    /\ bets[2]["bob"].claimRequested
    /\ bets[2]["bob"].claimed
    /\ claimHandles[2]["bob"] # NoHandle
    /\ getPendingClaim(2, "bob") = <<FALSE, claimHandles[2]["bob"]>>

\* a claim is pending: requested, not settled, reported with its handle
C39_Pending ==
    /\ last.op = "requestClaim"
    /\ bets[last.roundId][last.caller].claimRequested
    /\ getPendingClaim(last.roundId, last.caller)
          = <<TRUE, toBytes32("payout", last.roundId, last.caller,
                              SelectedPayout(last.roundId, last.caller))>>
    /\ ~bets[last.roundId][last.caller].claimed

====
